---------------------------- MODULE Spec2Model ----------------------------
(***************************************************************************)
(* Model of the marketing dashboard (ChaseX9/marketing-clv-project):       *)
(*   data/clean_scenario.py          the cleaning script                   *)
(*   Application/pages/cohortes.py   the cohort page (retention matrix)    *)
(*   Application/pages/segments.py   compute_rfm, segment_rfm,             *)
(*                                   compute_segment_metrics               *)
(*   Application/pages/scenario.py   the scenario simulator                *)
(*   Application/pages/overview.py   compute_kpis, compute_north_star,     *)
(*                                   and its variant overview(vide).py     *)
(*                                                                         *)
(* Conventions.                                                            *)
(*  - A DataFrame is a sequence of records, one record per row, one field  *)
(*    per column.                                                          *)
(*  - A timestamp is a day ordinal in a calendar of 12 months of 30 days.  *)
(*  - Money is an integer number of units.  Floating-point results are     *)
(*    exact rationals [n, d] in lowest terms, or the value NaN; rounding   *)
(*    of binary floating point is not modelled.                            *)
(*  - An invoice number is the sequence of its characters.                 *)
(***************************************************************************)
EXTENDS Integers, Sequences, FiniteSets, TLC

VARIABLES
    raw,              \* rows of online_retail_II.csv, the cleaning script's input
    csv,              \* rows of online_retail_II_clean_scenario.csv (load_data)
    include_returns,  \* segments page: the sidebar checkbox
    rfm,              \* segments page: the RFM table (compute_rfm, segment_rfm)
    coh,              \* cohort page: filtered frame, cohort_data, retention matrix
    sim,              \* scenario page: parameters and KPIs
    metrics,          \* segments page: the table of compute_segment_metrics
    kpis,             \* overview page: the dictionary of compute_kpis
    cache,            \* st.cache_data: the entry of each page's load_data
    loaded,           \* what the last call of a load_data gave its caller
    app               \* app.py: how far the script got, the page selected

vars == <<raw, csv, include_returns, rfm, coh, sim, metrics, kpis, cache, loaded, app>>

-----------------------------------------------------------------------------
(* Generic helpers on sequences and sets.                                  *)

Range(s) == {s[i] : i \in 1..Len(s)}

RECURSIVE SumSeq(_)
SumSeq(s) == IF s = <<>> THEN 0 ELSE Head(s) + SumSeq(Tail(s))

RECURSIVE Concat(_)
Concat(ss) == IF ss = <<>> THEN <<>> ELSE Head(ss) \o Concat(Tail(ss))

Column(df, col) == [i \in 1..Len(df) |-> df[i][col]]

SortInts(s) == SortSeq(s, LAMBDA a, b : a < b)

SetToSortedSeq(S) ==
    LET RECURSIVE Build(_)
        Build(T) == IF T = {} THEN <<>>
                    ELSE LET m == CHOOSE x \in T : \A y \in T : x <= y
                         IN  <<m>> \o Build(T \ {m})
    IN  Build(S)

SetMin(S) == CHOOSE x \in S : \A y \in S : x <= y
SetMax(S) == CHOOSE x \in S : \A y \in S : x >= y

RECURSIVE Gcd(_, _)
Gcd(a, b) == IF b = 0 THEN a ELSE Gcd(b, a % b)

Abs(x) == IF x < 0 THEN -x ELSE x

-----------------------------------------------------------------------------
(* Calendar: pandas .dt.year, .dt.month and the datetime64[M] truncation.  *)

Year(d) == d \div 360
Month(d) == ((d \div 30) % 12) + 1
ToMonth(d) == (d \div 30) * 30

\* strftime("%Y-%m") and to_period('M').astype(str): the year and the month
YearMonth(d) == <<Year(d), Month(d)>>

StartsWithC(inv) == Len(inv) > 0 /\ inv[1] = "C"

-----------------------------------------------------------------------------
(* data/clean_scenario.py                                                  *)

DropNa(df) ==
    SelectSeq(df, LAMBDA r : r.Invoice # <<>> /\ r.CustomerID # <<>>)

DropDuplicates(df) ==
    LET keep(i) == \A j \in 1..(i - 1) : df[j] # df[i]
        RECURSIVE Build(_)
        Build(i) == IF i > Len(df) THEN <<>>
                    ELSE (IF keep(i) THEN <<df[i]>> ELSE <<>>) \o Build(i + 1)
    IN  Build(1)

WithAmount(df) ==
    [i \in 1..Len(df) |->
        [InvoiceNo   |-> df[i].Invoice,
         CustomerID  |-> df[i].CustomerID[1],
         InvoiceDate |-> df[i].InvoiceDate,
         Quantity    |-> df[i].Quantity,
         UnitPrice   |-> df[i].Price,
         Country     |-> df[i].Country,
         Amount      |-> df[i].Quantity * df[i].Price]]

\* Series.quantile(p/100) of a non-empty series, linear interpolation, times 100
Quantile100(values, p) ==
    LET s   == SortInts(values)
        pos == p * (Len(s) - 1)
        lo  == (pos \div 100) + 1
        fr  == pos % 100
    IN  IF fr = 0 THEN 100 * s[lo]
        ELSE 100 * s[lo] + fr * (s[lo + 1] - s[lo])

OutlierFilter(df) ==
    LET sales        == SelectSeq(df, LAMBDA r : ~StartsWithC(r.InvoiceNo))
        amount_upper == Quantile100(Column(sales, "Amount"), 99)
        amount_lower == Quantile100(Column(sales, "Amount"), 1)
        \* the quantile of no value is NaN, and no amount compares to NaN
        inside(r)    == /\ sales # <<>>
                        /\ 100 * r.Amount >= amount_lower
                        /\ 100 * r.Amount <= amount_upper
    IN  SelectSeq(df, LAMBDA r : inside(r) \/ StartsWithC(r.InvoiceNo))

MarkReturns(df) ==
    [i \in 1..Len(df) |->
        LET r == df[i]
            IsReturn == StartsWithC(r.InvoiceNo)
        IN  [InvoiceNo   |-> r.InvoiceNo,
             CustomerID  |-> r.CustomerID,
             InvoiceDate |-> r.InvoiceDate,
             Quantity    |-> r.Quantity,
             UnitPrice   |-> r.UnitPrice,
             Country     |-> r.Country,
             Amount      |-> r.Amount,
             IsReturn    |-> IsReturn,
             AmountNet   |-> IF IsReturn THEN r.Amount * (-1) ELSE r.Amount]]

FirstDateMax(df, c) ==
    SetMax({df[j].InvoiceDate : j \in {k \in 1..Len(df) : df[k].CustomerID = c}})

\* groupby('CustomerID')['InvoiceDate'].transform('min')
FirstDate(df, c) ==
    SetMin({df[j].InvoiceDate : j \in {k \in 1..Len(df) : df[k].CustomerID = c}})

AddCohortColumns(df) ==
    [i \in 1..Len(df) |->
        LET r == df[i]
        IN  [InvoiceNo        |-> r.InvoiceNo,
             CustomerID       |-> r.CustomerID,
             InvoiceDate      |-> r.InvoiceDate,
             Quantity         |-> r.Quantity,
             UnitPrice        |-> r.UnitPrice,
             Country          |-> r.Country,
             Amount           |-> r.Amount,
             IsReturn         |-> r.IsReturn,
             AmountNet        |-> r.AmountNet,
             InvoiceMonth     |-> ToMonth(r.InvoiceDate),
             AcquisitionMonth |-> ToMonth(FirstDate(df, r.CustomerID))]]

clean_scenario(input) ==
    AddCohortColumns(MarkReturns(OutlierFilter(WithAmount(DropDuplicates(DropNa(input))))))

-----------------------------------------------------------------------------
(* Floating-point values: n/d in lowest terms with d > 0; NaN is 0/0.      *)

NaN == [n |-> 0, d |-> 0]

IsNaN(x) == x.d = 0

Rat(n, d) ==
    LET g == Gcd(Abs(n), Abs(d))
    IN  IF d < 0 THEN [n |-> (-n) \div g, d |-> (-d) \div g]
        ELSE [n |-> n \div g, d |-> d \div g]

FromInt(i) == [n |-> i, d |-> 1]

FMul(x, y) ==
    IF IsNaN(x) \/ IsNaN(y) THEN NaN
    ELSE LET a == Rat(x.n, y.d)
             b == Rat(y.n, x.d)
         IN  Rat(a.n * b.n, a.d * b.d)

FAdd(x, y) ==
    IF IsNaN(x) \/ IsNaN(y) THEN NaN
    ELSE Rat(x.n * y.d + y.n * x.d, x.d * y.d)

\* true division; 0/0 is NaN (numpy warns and does not raise)
FDiv(x, y) ==
    IF IsNaN(x) \/ IsNaN(y) \/ y.n = 0 THEN NaN
    ELSE Rat(x.n * y.d, x.d * y.n)

\* x < y; every comparison with NaN is False
FLt(x, y) == ~IsNaN(x) /\ ~IsNaN(y) /\ x.n * y.d < y.n * x.d

\* x == y; NaN is equal to nothing
FEq(x, y) == ~IsNaN(x) /\ ~IsNaN(y) /\ x = y

RECURSIVE FSum(_)
FSum(s) == IF s = <<>> THEN FromInt(0) ELSE FAdd(Head(s), FSum(Tail(s)))

\* the builtin min(a, b): b when b < a, and a otherwise
PyMin(a, b) == IF FLt(b, a) THEN b ELSE a

-----------------------------------------------------------------------------
(* Application/pages/cohortes.py                                           *)

continent_map(country) ==
    CASE country \in {"United Kingdom", "Germany", "France", "Spain",
                      "Portugal", "Italy", "Belgium"}          -> "Europe"
      [] country \in {"Australia", "New Zealand"}              -> "Oceania"
      [] country \in {"USA", "Canada"}                         -> "America"
      [] country \in {"Japan", "China", "Singapore"}           -> "Asia"
      [] OTHER                                                 -> "Other"

\* the choices the geographic widgets offer on frame df
GeoChoices(df) ==
    LET continents == {continent_map(c) : c \in Range(Column(df, "Country"))}
        countries  == Range(Column(df, "Country"))
    IN  {[geo_filter |-> "Tous", choice |-> {}]}
        \cup {[geo_filter |-> "Continent", choice |-> {k}] : k \in continents}
        \cup {[geo_filter |-> "Pays", choice |-> P] : P \in SUBSET countries}

GeoFilter(df, g) ==
    IF g.geo_filter = "Continent"
    THEN SelectSeq(df, LAMBDA r : continent_map(r.Country) \in g.choice)
    ELSE IF g.geo_filter = "Pays" /\ g.choice # {}
    THEN SelectSeq(df, LAMBDA r : r.Country \in g.choice)
    ELSE df

\* the values date_input can return on a non-empty frame: one date (the range
\* is not complete) or two dates start <= end, all within [min_date, max_date]
DateChoices(df) ==
    LET acq      == Range(Column(df, "AcquisitionMonth"))
        min_date == SetMin(acq)
        max_date == SetMax(acq)
        days     == {d \in acq \cup {m + 15 : m \in acq} : min_date <= d /\ d <= max_date}
    IN  {<<d>> : d \in days}
        \cup {p \in days \X days : p[1] <= p[2]}

DateFilter(df, date_range) ==
    IF Len(date_range) = 2
    THEN SelectSeq(df, LAMBDA r : /\ r.AcquisitionMonth >= date_range[1]
                                  /\ r.AcquisitionMonth <= date_range[2])
    ELSE df

CohortOptions(df) == {YearMonth(d) : d \in Range(Column(df, "AcquisitionMonth"))}

CohortFilter(df, selected_cohortes) ==
    SelectSeq(df, LAMBDA r : YearMonth(r.AcquisitionMonth) \in selected_cohortes)

CohortAgeOf(r) ==
    (Year(r.InvoiceMonth) - Year(r.AcquisitionMonth)) * 12
        + (Month(r.InvoiceMonth) - Month(r.AcquisitionMonth))

WithCohortAge(df) ==
    [i \in 1..Len(df) |->
        [CustomerID       |-> df[i].CustomerID,
         Country          |-> df[i].Country,
         AmountNet        |-> df[i].AmountNet,
         InvoiceMonth     |-> df[i].InvoiceMonth,
         AcquisitionMonth |-> df[i].AcquisitionMonth,
         CohortAge        |-> CohortAgeOf(df[i])]]

\* groupby(["AcquisitionMonth", "CohortAge"])["CustomerID"].nunique()
GroupCounts(df) ==
    LET keys == {<<r.AcquisitionMonth, r.CohortAge>> : r \in Range(df)}
    IN  {[AcquisitionMonth |-> k[1],
          CohortAge        |-> k[2],
          CustomerID       |-> Cardinality({r.CustomerID : r \in
                                   {x \in Range(df) : /\ x.AcquisitionMonth = k[1]
                                                      /\ x.CohortAge = k[2]}})]
         : k \in keys}

CohortSizesAnyAge(counts) ==
    {[AcquisitionMonth |-> a,
      CohortSize       |-> SetMax({x.CustomerID : x \in
                               {y \in counts : y.AcquisitionMonth = a}})]
        : a \in {g.AcquisitionMonth : g \in counts}}

CohortSizes(counts) ==
    {[AcquisitionMonth |-> g.AcquisitionMonth, CohortSize |-> g.CustomerID]
        : g \in {x \in counts : x.CohortAge = 0}}

CohortDataLeftMerge(df) ==
    LET counts == GroupCounts(df)
        sizes  == CohortSizes(counts)
        size(a) == IF \E z \in sizes : z.AcquisitionMonth = a
                   THEN (CHOOSE z \in sizes : z.AcquisitionMonth = a).CohortSize
                   ELSE 0
    IN  {[AcquisitionMonth |-> g.AcquisitionMonth,
          CohortAge        |-> g.CohortAge,
          CustomerID       |-> g.CustomerID,
          CohortSize       |-> size(g.AcquisitionMonth),
          RetentionRate    |-> FDiv(FromInt(g.CustomerID), FromInt(size(g.AcquisitionMonth)))]
         : g \in counts}

\* merge(cohort_sizes, on="AcquisitionMonth"), an inner join, and the rate
CohortData(df) ==
    LET counts == GroupCounts(df)
        sizes  == CohortSizes(counts)
    IN  {[AcquisitionMonth |-> g.AcquisitionMonth,
          CohortAge        |-> g.CohortAge,
          CustomerID       |-> g.CustomerID,
          CohortSize       |-> z.CohortSize,
          RetentionRate    |-> FDiv(FromInt(g.CustomerID), FromInt(z.CohortSize))]
         : <<g, z>> \in {p \in counts \X sizes :
                             p[1].AcquisitionMonth = p[2].AcquisitionMonth}}

\* pivot(index="AcquisitionMonth", columns="CohortAge", values="RetentionRate")
Pivot(cohort_data) ==
    LET index   == {g.AcquisitionMonth : g \in cohort_data}
        columns == {g.CohortAge : g \in cohort_data}
        cell(a, k) == LET hit == {g \in cohort_data : /\ g.AcquisitionMonth = a
                                                      /\ g.CohortAge = k}
                      IN  IF hit = {} THEN NaN
                          ELSE (CHOOSE g \in hit : TRUE).RetentionRate
    IN  [a \in index |-> [k \in columns |-> cell(a, k)]]

CohortPage(df) ==
    LET aged == WithCohortAge(df)
        data == CohortData(aged)
    IN  [status |-> "shown", df |-> aged, cohort_data |-> data,
         retention_matrix |-> Pivot(data)]

-----------------------------------------------------------------------------
(* Application/pages/segments.py: compute_rfm                              *)

NBins == 5

DecimalDigit == <<"0", "1", "2", "3", "4", "5", "6", "7", "8", "9">>

\* str() of an integer: its decimal digits, one character each
RECURSIVE Str(_)
Str(i) ==
    IF i < 0 THEN <<"-">> \o Str(-i)
    ELSE IF i < 10 THEN <<DecimalDigit[i + 1]>>
    ELSE Str(i \div 10) \o <<DecimalDigit[(i % 10) + 1]>>

\* the first occurrence of each value, in order (algos.unique)
RECURSIVE Unique(_)
Unique(s) ==
    IF s = <<>> THEN <<>>
    ELSE LET front == Unique(SubSeq(s, 1, Len(s) - 1))
             last  == s[Len(s)]
         IN  IF last \in Range(front) THEN front ELSE Append(front, last)

RankLastFirst(x) ==
    [i \in 1..Len(x) |->
        1 + Cardinality({j \in 1..Len(x) : x[j] < x[i]})
          + Cardinality({j \in (i + 1)..Len(x) : x[j] = x[i]})]

\* Series.rank(method='first'): ascending, ties in order of appearance
RankFirst(x) ==
    [i \in 1..Len(x) |->
        1 + Cardinality({j \in 1..Len(x) : x[j] < x[i]})
          + Cardinality({j \in 1..(i - 1) : x[j] = x[i]})]

\* the q + 1 quantiles of a non-empty series (linear interpolation), each
\* times NBins so that they stay integers
QuantileEdges(x) ==
    LET s == SortInts(x)
        edge(k) == LET pos == k * (Len(s) - 1)
                       lo  == (pos \div NBins) + 1
                       fr  == pos % NBins
                   IN  IF fr = 0 THEN NBins * s[lo]
                       ELSE NBins * s[lo] + fr * (s[lo + 1] - s[lo])
    IN  [k \in 1..(NBins + 1) |-> edge(k - 1)]

\* _bins_to_cuts: the bin of v in right-closed bins, 0 when v is in none
BinOf(bins, v) ==
    LET ids == IF NBins * v = bins[1] THEN 1      \* include_lowest=True
               ELSE Cardinality({j \in 1..Len(bins) : bins[j] < NBins * v})
    IN  IF ids = Len(bins) THEN 0 ELSE ids

\* pd.qcut(x, 5, labels=labels, duplicates='drop').  The result is the label
\* of each value, 0 standing for the missing category (NaN), or the
\* ValueError "Bin labels must be one fewer than the number of bin edges".
qcut(x, labels) ==
    LET edges  == QuantileEdges(x)
        unique == Unique(edges)
        \* the quantiles of no value are NaN, one distinct edge
        bins   == IF x = <<>> THEN <<>>
                  ELSE IF Len(unique) < Len(edges) THEN unique ELSE edges
        nedges == IF x = <<>> THEN 1 ELSE Len(bins)
    IN  IF Len(labels) # nedges - 1
        THEN [error |-> "ValueError", bins |-> bins, values |-> <<>>]
        ELSE [error |-> "", bins |-> bins,
              values |-> [i \in 1..Len(x) |->
                            LET b == BinOf(bins, x[i])
                            IN  IF b = 0 THEN 0 ELSE labels[b]]]

Customers(df) == SetToSortedSeq(Range(Column(df, "CustomerID")))

RowsOf(df, c) == SelectSeq(df, LAMBDA r : r.CustomerID = c)

RfmAggSnapshotIsLastDay(df_temp) ==
    LET snapshot_date == SetMax(Range(Column(df_temp, "InvoiceDate")))
        customers     == Customers(df_temp)
    IN  [i \in 1..Len(customers) |->
            LET rows == RowsOf(df_temp, customers[i])
            IN  [CustomerID |-> customers[i],
                 Recency    |-> snapshot_date - SetMax(Range(Column(rows, "InvoiceDate"))),
                 Frequency  |-> Cardinality(Range(Column(rows, "InvoiceNo"))),
                 Monetary   |-> SumSeq(Column(rows, "AmountNet"))]]

\* groupby('CustomerID').agg(...): one row per customer, by ascending id
RfmAgg(df_temp) ==
    LET snapshot_date == SetMax(Range(Column(df_temp, "InvoiceDate"))) + 1
        customers     == Customers(df_temp)
    IN  [i \in 1..Len(customers) |->
            LET rows == RowsOf(df_temp, customers[i])
            IN  [CustomerID |-> customers[i],
                 Recency    |-> snapshot_date - SetMax(Range(Column(rows, "InvoiceDate"))),
                 Frequency  |-> Cardinality(Range(Column(rows, "InvoiceNo"))),
                 Monetary   |-> SumSeq(Column(rows, "AmountNet"))]]

PositiveMonetaryOrZero(agg) == SelectSeq(agg, LAMBDA r : r.Monetary >= 0)

PositiveMonetary(agg) == SelectSeq(agg, LAMBDA r : r.Monetary > 0)

RfmScoreFromValues(r) == Str(r.Recency) \o Str(r.Frequency) \o Str(r.M_Score)

\* astype(str) + astype(str) + astype(str)
RfmScoreOf(r) == Str(r.R_Score) \o Str(r.F_Score) \o Str(r.M_Score)

RecencyLabelsAscending == <<1, 2, 3, 4, 5>>

\* labels=[5, 4, 3, 2, 1] of R_Score
RecencyLabels == <<5, 4, 3, 2, 1>>

\* labels=[1, 2, 3, 4, 5] of F_Score and M_Score
AscendingLabels == <<1, 2, 3, 4, 5>>

\* lines 58-71 on the table of the customers kept
RfmScores(tab) ==
    LET R == qcut(Column(tab, "Recency"), RecencyLabels)
        F == qcut(RankFirst(Column(tab, "Frequency")), AscendingLabels)
        M == qcut(Column(tab, "Monetary"), AscendingLabels)
        scored == [i \in 1..Len(tab) |->
                      [CustomerID |-> tab[i].CustomerID,
                       Recency    |-> tab[i].Recency,
                       Frequency  |-> tab[i].Frequency,
                       Monetary   |-> tab[i].Monetary,
                       R_Score    |-> R.values[i],
                       F_Score    |-> F.values[i],
                       M_Score    |-> M.values[i]]]
    IN  IF R.error # "" \/ F.error # "" \/ M.error # ""
        THEN [status |-> "ValueError", rows |-> <<>>,
              bins |-> [R |-> R.bins, F |-> F.bins, M |-> M.bins]]
        \* astype(int) of a missing category raises
        ELSE IF \E i \in 1..Len(tab) : 0 \in {R.values[i], F.values[i], M.values[i]}
        THEN [status |-> "ValueError", rows |-> <<>>,
              bins |-> [R |-> R.bins, F |-> F.bins, M |-> M.bins]]
        ELSE [status |-> "ok",
              rows |-> [i \in 1..Len(tab) |->
                          [CustomerID  |-> scored[i].CustomerID,
                           Recency     |-> scored[i].Recency,
                           Frequency   |-> scored[i].Frequency,
                           Monetary    |-> scored[i].Monetary,
                           R_Score     |-> scored[i].R_Score,
                           F_Score     |-> scored[i].F_Score,
                           M_Score     |-> scored[i].M_Score,
                           RFM_Score   |-> RfmScoreOf(scored[i]),
                           RFM_Numeric |-> scored[i].R_Score + scored[i].F_Score
                                             + scored[i].M_Score]],
              bins |-> [R |-> R.bins, F |-> F.bins, M |-> M.bins]]

CallerFrameFilteredInPlace(df, with_returns) ==
    IF ~with_returns THEN SelectSeq(df, LAMBDA r : r.IsReturn = FALSE) ELSE df

\* the frame of the caller once compute_rfm has returned: df_temp is a copy
\* (line 36) and the filter of line 40 rebinds the local name
CallerFrameAfterRfm(df, with_returns) == df

compute_rfm(df, with_returns) ==
    LET df_temp == IF ~with_returns
                   THEN SelectSeq(df, LAMBDA r : r.IsReturn = FALSE)
                   ELSE df
    IN  IF df_temp = <<>>
        THEN RfmScores(<<>>)
        ELSE RfmScores(PositiveMonetary(RfmAgg(df_temp)))

-----------------------------------------------------------------------------
(* Application/pages/segments.py: segment_rfm                              *)

assign_segment_LoyauxFirst(r, f, m) ==
    IF r >= 3 /\ f >= 4 /\ m >= 4 THEN "Loyaux"
    ELSE IF r >= 4 /\ f >= 4 /\ m >= 4 THEN "Champions"
    ELSE IF r >= 4 /\ f >= 3 /\ m >= 3 THEN "Potentiels Loyaux"
    ELSE IF r >= 4 /\ f <= 2 THEN "Nouveaux"
    ELSE IF r >= 3 /\ f <= 2 /\ m >= 3 THEN "Prometteurs"
    ELSE IF r = 3 /\ f >= 3 /\ m >= 3 THEN "Besoin d'Attention"
    ELSE IF r <= 2 /\ f >= 3 /\ m >= 3 THEN "A Risque"
    ELSE IF r <= 2 /\ f <= 2 /\ m >= 3 THEN "Hibernants"
    ELSE IF r <= 2 /\ f <= 2 /\ m <= 2 THEN "Perdus"
    ELSE "Autres"

assign_segment_Dormants(r, f, m) ==
    IF r >= 4 /\ f >= 4 /\ m >= 4 THEN "Champions"
    ELSE IF r >= 3 /\ f >= 4 /\ m >= 4 THEN "Loyaux"
    ELSE IF r >= 4 /\ f >= 3 /\ m >= 3 THEN "Potentiels Loyaux"
    ELSE IF r >= 4 /\ f <= 2 THEN "Nouveaux"
    ELSE IF r >= 3 /\ f <= 2 /\ m >= 3 THEN "Prometteurs"
    ELSE IF r = 3 /\ f >= 3 /\ m >= 3 THEN "Besoin d'Attention"
    ELSE IF r <= 2 /\ f >= 3 /\ m >= 3 THEN "A Risque"
    ELSE IF r <= 2 /\ f <= 2 /\ m >= 3 THEN "Dormants"
    ELSE IF r <= 2 /\ f <= 2 /\ m <= 2 THEN "Perdus"
    ELSE "Autres"

\* "A Risque" stands for the segment the source spells with an accented A
assign_segment(r, f, m) ==
    IF r >= 4 /\ f >= 4 /\ m >= 4 THEN "Champions"
    ELSE IF r >= 3 /\ f >= 4 /\ m >= 4 THEN "Loyaux"
    ELSE IF r >= 4 /\ f >= 3 /\ m >= 3 THEN "Potentiels Loyaux"
    ELSE IF r >= 4 /\ f <= 2 THEN "Nouveaux"
    ELSE IF r >= 3 /\ f <= 2 /\ m >= 3 THEN "Prometteurs"
    ELSE IF r = 3 /\ f >= 3 /\ m >= 3 THEN "Besoin d'Attention"
    ELSE IF r <= 2 /\ f >= 3 /\ m >= 3 THEN "A Risque"
    ELSE IF r <= 2 /\ f <= 2 /\ m >= 3 THEN "Hibernants"
    ELSE IF r <= 2 /\ f <= 2 /\ m <= 2 THEN "Perdus"
    ELSE "Autres"

\* rfm.apply(assign_segment, axis=1): the column Segment added to every row
segment_rfm(rows) ==
    [i \in 1..Len(rows) |->
        [col \in DOMAIN rows[i] \cup {"Segment"} |->
            IF col = "Segment"
            THEN assign_segment(rows[i].R_Score, rows[i].F_Score, rows[i].M_Score)
            ELSE rows[i][col]]]

-----------------------------------------------------------------------------
(* Application/pages/segments.py: get_segment_priorities and               *)
(* compute_segment_metrics.  Accents of the source's texts are dropped.    *)

get_segment_priorities_AutresNinth ==
    ("Champions" :> [priority |-> 1, color |-> "#2ecc71",
                     action |-> "Recompenser, solliciter avis, upsell premium",
                     description |-> "Meilleurs clients, tres actifs et depensent beaucoup"])
    @@ ("Loyaux" :> [priority |-> 2, color |-> "#27ae60",
                     action |-> "Programmes fidelite, offres exclusives",
                     description |-> "Clients fideles avec bonne valeur"])
    @@ ("Potentiels Loyaux" :> [priority |-> 3, color |-> "#3498db",
                     action |-> "Engagement regulier, offres personnalisees",
                     description |-> "Recents avec bon potentiel de fidelisation"])
    @@ ("Nouveaux" :> [priority |-> 4, color |-> "#9b59b6",
                     action |-> "Onboarding, offres decouverte, formation",
                     description |-> "Clients recents a convertir"])
    @@ ("Prometteurs" :> [priority |-> 5, color |-> "#1abc9c",
                     action |-> "Offres ciblees, cross-sell",
                     description |-> "Bon potentiel de valeur"])
    @@ ("Besoin d'Attention" :> [priority |-> 6, color |-> "#f39c12",
                     action |-> "Campagnes de reengagement, enquetes satisfaction",
                     description |-> "Commencent a decliner, a reactiver rapidement"])
    @@ ("A Risque" :> [priority |-> 7, color |-> "#e67e22",
                     action |-> "Offres de reconquete, remises limitees",
                     description |-> "Etaient bons mais deviennent inactifs"])
    @@ ("Hibernants" :> [priority |-> 8, color |-> "#e74c3c",
                     action |-> "Campagnes de reactivation, win-back",
                     description |-> "Inactifs depuis longtemps"])
    @@ ("Perdus" :> [priority |-> 9, color |-> "#95a5a6",
                     action |-> "Cout faible : sondage ou retrait liste",
                     description |-> "Tres peu d'engagement, ROI faible"])
    @@ ("Autres" :> [priority |-> 9, color |-> "#7f8c8d",
                     action |-> "A analyser au cas par cas",
                     description |-> "Profil mixte"])

get_segment_priorities ==
    ("Champions" :> [priority |-> 1, color |-> "#2ecc71",
                     action |-> "Recompenser, solliciter avis, upsell premium",
                     description |-> "Meilleurs clients, tres actifs et depensent beaucoup"])
    @@ ("Loyaux" :> [priority |-> 2, color |-> "#27ae60",
                     action |-> "Programmes fidelite, offres exclusives",
                     description |-> "Clients fideles avec bonne valeur"])
    @@ ("Potentiels Loyaux" :> [priority |-> 3, color |-> "#3498db",
                     action |-> "Engagement regulier, offres personnalisees",
                     description |-> "Recents avec bon potentiel de fidelisation"])
    @@ ("Nouveaux" :> [priority |-> 4, color |-> "#9b59b6",
                     action |-> "Onboarding, offres decouverte, formation",
                     description |-> "Clients recents a convertir"])
    @@ ("Prometteurs" :> [priority |-> 5, color |-> "#1abc9c",
                     action |-> "Offres ciblees, cross-sell",
                     description |-> "Bon potentiel de valeur"])
    @@ ("Besoin d'Attention" :> [priority |-> 6, color |-> "#f39c12",
                     action |-> "Campagnes de reengagement, enquetes satisfaction",
                     description |-> "Commencent a decliner, a reactiver rapidement"])
    @@ ("A Risque" :> [priority |-> 7, color |-> "#e67e22",
                     action |-> "Offres de reconquete, remises limitees",
                     description |-> "Etaient bons mais deviennent inactifs"])
    @@ ("Hibernants" :> [priority |-> 8, color |-> "#e74c3c",
                     action |-> "Campagnes de reactivation, win-back",
                     description |-> "Inactifs depuis longtemps"])
    @@ ("Perdus" :> [priority |-> 9, color |-> "#95a5a6",
                     action |-> "Cout faible : sondage ou retrait liste",
                     description |-> "Tres peu d'engagement, ROI faible"])
    @@ ("Autres" :> [priority |-> 10, color |-> "#7f8c8d",
                     action |-> "A analyser au cas par cas",
                     description |-> "Profil mixte"])

\* df.merge(rfm[['Segment']].reset_index(), on='CustomerID', how='inner'):
\* the rows of df whose customer has a row in rfm, with that row's Segment
MergeSegment(df, rfm_rows) ==
    LET SegmentOf(c) == (CHOOSE x \in Range(rfm_rows) : x.CustomerID = c).Segment
        matched == SelectSeq(df, LAMBDA r :
                       \E x \in Range(rfm_rows) : x.CustomerID = r.CustomerID)
    IN  [i \in 1..Len(matched) |->
            [CustomerID |-> matched[i].CustomerID,
             InvoiceNo  |-> matched[i].InvoiceNo,
             AmountNet  |-> matched[i].AmountNet,
             Segment    |-> SegmentOf(matched[i].CustomerID)]]

\* the order of the group keys of groupby('Segment'): sorted strings, the
\* accented capital after every ASCII letter
GroupOrder ==
    <<"Autres", "Besoin d'Attention", "Champions", "Hibernants", "Loyaux",
      "Nouveaux", "Perdus", "Potentiels Loyaux", "Prometteurs", "A Risque">>

SegmentClientsByInvoice(rows) == Cardinality(Range(Column(rows, "InvoiceNo")))

\* 'CustomerID': 'nunique'
SegmentClients(rows) == Cardinality(Range(Column(rows, "CustomerID")))

\* CA_Total / CA_Total.sum() * 100 on float columns: inf or nan for a sum of 0
PartCA(ca_total, sum) ==
    IF sum # 0 THEN Rat(100 * ca_total, sum)
    ELSE IF ca_total = 0 THEN NaN
    ELSE [inf |-> IF ca_total > 0 THEN 1 ELSE -1]

GroupedOrder(rows) == rows

\* metrics.sort_values('Priorite')
SortByPriority(rows) == SortSeq(rows, LAMBDA a, b : a.Priorite < b.Priorite)

\* priorities[x] of lines 237-238 is a KeyError for a segment of the merged
\* frame that the table does not have
SegmentsWithoutPriority(df, rfm_rows) ==
    {r.Segment : r \in Range(MergeSegment(df, rfm_rows))} \ DOMAIN get_segment_priorities

compute_segment_metrics(df, rfm_rows) ==
    LET df_with_segment == MergeSegment(df, rfm_rows)
        present    == SelectSeq(GroupOrder, LAMBDA g :
                          \E r \in Range(df_with_segment) : r.Segment = g)
        group(g)   == SelectSeq(df_with_segment, LAMBDA r : r.Segment = g)
        ca(g)      == SumSeq(Column(group(g), "AmountNet"))
        ca_sum     == SumSeq([k \in 1..Len(present) |-> ca(present[k])])
        priorities == get_segment_priorities
    IN  SortByPriority(
            [k \in 1..Len(present) |->
                LET g == present[k]
                IN  [Segment      |-> g,
                     Clients      |-> SegmentClients(group(g)),
                     CA_Total     |-> ca(g),
                     Panier_Moyen |-> Rat(ca(g), Len(group(g))),
                     Transactions |-> Cardinality(Range(Column(group(g), "InvoiceNo"))),
                     Part_CA      |-> PartCA(ca(g), ca_sum),
                     Priorite     |-> priorities[g].priority,
                     Action       |-> priorities[g].action]])

-----------------------------------------------------------------------------
(* Application/pages/scenario.py                                           *)

Pct(p) == Rat(p, 100)

AmountAdjDiscountAdded(amount_net, marge_pct, discount_pct) ==
    FMul(FMul(FromInt(amount_net), FAdd(FromInt(1), Pct(marge_pct))),
         FAdd(FromInt(1), Pct(discount_pct)))

\* AmountNet * (1 + marge_pct/100) * (1 - discount_pct/100)
AmountAdj(amount_net, marge_pct, discount_pct) ==
    FMul(FMul(FromInt(amount_net), FAdd(FromInt(1), Pct(marge_pct))),
         FAdd(FromInt(1), Pct(-discount_pct)))

RetentionScenarioClampedBelow(retention_baseline, retention_pct) ==
    LET product == FMul(retention_baseline, FAdd(FromInt(1), Pct(retention_pct)))
        capped  == PyMin(product, FromInt(1))
    IN  IF FLt(capped, FromInt(0)) THEN FromInt(0) ELSE capped

\* retention_baseline * (1 + retention_pct/100), then min(., 1)
RetentionScenario(retention_baseline, retention_pct) ==
    PyMin(FMul(retention_baseline, FAdd(FromInt(1), Pct(retention_pct))), FromInt(1))

CohorteOptionsOfInvoiceMonth(df) == {YearMonth(d) : d \in Range(Column(df, "InvoiceMonth"))}

\* the entries of the selectbox "Cohorte cible" after "Toutes"
CohorteOptions(df) == {YearMonth(d) : d \in Range(Column(df, "AcquisitionMonth"))}

Toutes == <<>>

SimFrame(df, cohorte_selection) ==
    IF cohorte_selection # Toutes
    THEN SelectSeq(df, LAMBDA r : YearMonth(r.AcquisitionMonth) = cohorte_selection)
    ELSE df

\* groupby('CustomerID')[col].sum().mean(); the mean of no value is NaN
MeanPerCustomer(df, amounts) ==
    LET customers == Customers(df)
        total(c)  == FSum([k \in 1..Cardinality({i \in 1..Len(df) : df[i].CustomerID = c})
                             |-> amounts[SetToSortedSeq({i \in 1..Len(df) :
                                                          df[i].CustomerID = c})[k]]])
    IN  FDiv(FSum([j \in 1..Len(customers) |-> total(customers[j])]),
             FromInt(Len(customers)))

\* lines 58-93 of show()
ScenarioKpis(df, marge_pct, discount_pct, retention_pct, cohorte_selection) ==
    LET df_sim    == SimFrame(df, cohorte_selection)
        net       == [i \in 1..Len(df_sim) |-> FromInt(df_sim[i].AmountNet)]
        adj       == [i \in 1..Len(df_sim) |->
                         AmountAdj(df_sim[i].AmountNet, marge_pct, discount_pct)]
        clv_baseline == MeanPerCustomer(df_sim, net)
        ca_baseline  == FSum(net)
        sales        == Cardinality({i \in 1..Len(df_sim) : df_sim[i].IsReturn = FALSE})
        retention_baseline == FDiv(FromInt(sales), FromInt(Len(df_sim)))
        retention_scenario == RetentionScenario(retention_baseline, retention_pct)
        ratio        == FDiv(retention_scenario, retention_baseline)
    IN  [status             |-> "shown",
         marge_pct          |-> marge_pct,
         discount_pct       |-> discount_pct,
         retention_pct      |-> retention_pct,
         cohorte_selection  |-> cohorte_selection,
         clv_baseline       |-> clv_baseline,
         ca_baseline        |-> ca_baseline,
         retention_baseline |-> retention_baseline,
         retention_scenario |-> retention_scenario,
         clv_scenario       |-> FMul(MeanPerCustomer(df_sim, adj), ratio),
         ca_scenario        |-> FMul(FSum(adj), ratio)]

-----------------------------------------------------------------------------
(* Application/pages/overview.py and Application/pages/overview(vide).py   *)

\* compute_rfm of the overview page: one row per customer, by ascending id,
\* with no filter and no score
OverviewRfm(df) ==
    LET snapshot  == SetMax(Range(Column(df, "InvoiceDate"))) + 1
        customers == Customers(df)
    IN  [i \in 1..Len(customers) |->
            LET rows == RowsOf(df, customers[i])
            IN  [CustomerID |-> customers[i],
                 Recency    |-> snapshot - SetMax(Range(Column(rows, "InvoiceDate"))),
                 Frequency  |-> Cardinality(Range(Column(rows, "InvoiceNo"))),
                 Monetary   |-> SumSeq(Column(rows, "AmountNet"))]]

\* pd.Timedelta(days=90)
NorthStarDays == 90

compute_north_star_NoWindow(df) ==
    LET total_rev == SumSeq(Column(df, "AmountNet"))
        n_clients == Cardinality(Range(Column(df, "CustomerID")))
    IN  IF n_clients > 0 THEN Rat(total_rev, n_clients) ELSE FromInt(0)

compute_north_star(df) ==
    LET FirstPurchase(c) == SetMin(Range(Column(RowsOf(df, c), "InvoiceDate")))
        df_90     == SelectSeq(df, LAMBDA r :
                         r.InvoiceDate <= FirstPurchase(r.CustomerID) + NorthStarDays)
        total_rev == SumSeq(Column(df_90, "AmountNet"))
        n_clients == Cardinality(Range(Column(df_90, "CustomerID")))
    IN  IF n_clients > 0 THEN Rat(total_rev, n_clients) ELSE FromInt(0)

\* df["CohortAge"] = (inv - acq).apply(lambda x: x.n): the column added to
\* the frame it is assigned on
AssignCohortAge(df) ==
    [i \in 1..Len(df) |->
        [col \in DOMAIN df[i] \cup {"CohortAge"} |->
            IF col = "CohortAge" THEN CohortAgeOf(df[i]) ELSE df[i][col]]]

\* groupby("CohortAge")["AmountNet"].sum().mean(), 0.0 for no group
AvgRevPerAge(df) ==
    LET ages == SetToSortedSeq(Range(Column(df, "CohortAge")))
        rev_by_age == [k \in 1..Len(ages) |->
                          SumSeq(Column(SelectSeq(df, LAMBDA r : r.CohortAge = ages[k]),
                                        "AmountNet"))]
    IN  IF ages = <<>> THEN FromInt(0) ELSE Rat(SumSeq(rev_by_age), Len(ages))

\* the dictionary compute_kpis returns; total_rev / active_clients is a numpy
\* division, nan for 0/0
compute_kpis(df) ==
    LET active_clients == Cardinality(Range(Column(df, "CustomerID")))
        total_rev      == SumSeq(Column(df, "AmountNet"))
        aged           == SelectSeq(AssignCohortAge(df), LAMBDA r : r.CohortAge >= 0)
    IN  [status          |-> "returned",
         active_clients  |-> active_clients,
         clv_baseline    |-> FDiv(FromInt(total_rev), FromInt(active_clients)),
         rfm_count       |-> Len(OverviewRfm(df)),
         avg_rev_per_age |-> AvgRevPerAge(aged),
         north_star      |-> compute_north_star(aged)]

\* What the call compute_kpis(df) leaves in the dictionary.  The sum of an
\* empty AmountNet column of dtype object (a file of no row) is the int 0,
\* and 0 / 0 on ints raises; on a numeric column it is a numpy scalar.
KpisOutcomes(df) ==
    IF df = <<>> THEN {[status |-> "ZeroDivisionError"], compute_kpis(df)}
    ELSE {compute_kpis(df)}

-----------------------------------------------------------------------------
(* load_data of the four pages, each under @st.cache_data.                 *)

\* the header that clean_scenario.py writes
CleanColumns ==
    {"InvoiceNo", "CustomerID", "InvoiceDate", "Quantity", "UnitPrice", "Country",
     "Amount", "IsReturn", "AmountNet", "InvoiceMonth", "AcquisitionMonth"}

\* df.columns: a file without rows still has its header
Columns(file) == IF file = <<>> THEN CleanColumns ELSE DOMAIN file[1]

\* df[col] = values: the column added to, or replaced in, every row
WithColumn(df, col, values) ==
    [i \in 1..Len(df) |->
        [c \in DOMAIN df[i] \cup {col} |-> IF c = col THEN values[i] ELSE df[i][c]]]

Raised(error, col) == [status |-> error, column |-> col]

Ok(df) == [status |-> "ok", rows |-> df]

ParseDates == {"InvoiceDate", "InvoiceMonth", "AcquisitionMonth"}

\* pd.read_csv(path, parse_dates=[...]): a column of parse_dates the file
\* does not have is a ValueError that names it
read_csv(file) ==
    IF ParseDates \subseteq Columns(file) THEN Ok(file)
    ELSE Raised("ValueError", CHOOSE c \in ParseDates : c \notin Columns(file))

\* segments.py lines 11-19
load_data_segments(file) ==
    LET df == read_csv(file)
    IN  IF df.status # "ok" THEN df
        ELSE IF "CustomerID" \notin Columns(file) THEN Raised("KeyError", "CustomerID")
        ELSE IF "AmountNet" \in Columns(file) THEN df
        ELSE IF "Amount" \notin Columns(file) THEN Raised("KeyError", "Amount")
        ELSE Ok(WithColumn(file, "AmountNet", Column(file, "Amount")))

\* scenario.py lines 13-21
load_data_scenario(file) ==
    LET df == read_csv(file)
    IN  IF df.status # "ok" THEN df
        ELSE IF "CustomerID" \notin Columns(file) THEN Raised("KeyError", "CustomerID")
        ELSE IF "AmountNet" \in Columns(file) THEN df
        ELSE IF "Amount" \notin Columns(file) THEN Raised("KeyError", "Amount")
        ELSE Ok(WithColumn(file, "AmountNet", Column(file, "Amount")))

\* overview.py lines 10-31
load_data_overview(file) ==
    LET df  == read_csv(file)
        net == IF "AmountNet" \in Columns(file) THEN df
               ELSE IF "Amount" \in Columns(file)
               THEN Ok(WithColumn(file, "AmountNet", Column(file, "Amount")))
               ELSE IF "Quantity" \notin Columns(file) THEN Raised("KeyError", "Quantity")
               ELSE IF "UnitPrice" \notin Columns(file) THEN Raised("KeyError", "UnitPrice")
               ELSE Ok(WithColumn(file, "AmountNet",
                                 [i \in 1..Len(file) |-> file[i].Quantity * file[i].UnitPrice]))
    IN  IF df.status # "ok" THEN df
        ELSE IF "CustomerID" \notin Columns(file) THEN Raised("KeyError", "CustomerID")
        ELSE IF net.status # "ok" THEN net
        ELSE IF "IsReturn" \notin Columns(file) /\ "InvoiceNo" \in Columns(file)
        THEN Ok(WithColumn(net.rows, "IsReturn",
                       [i \in 1..Len(file) |-> StartsWithC(file[i].InvoiceNo)]))
        ELSE net

\* cohortes.py lines 10-16
load_data_cohortes(file) == read_csv(file)

Loaders == {"overview", "cohortes", "segments", "scenario"}

load_data(page, file) ==
    CASE page = "overview" -> load_data_overview(file)
      [] page = "cohortes" -> load_data_cohortes(file)
      [] page = "segments" -> load_data_segments(file)
      [] page = "scenario" -> load_data_scenario(file)

-----------------------------------------------------------------------------
(* Input files.  A raw file is, for customers 1..n, the invoice lines of   *)
(* one profile each.                                                       *)

Digit == <<"1", "2", "3", "4", "5", "6", "7", "8", "9">>

Line(k, credit, date, qty, price, country) ==
    [k |-> k, credit |-> credit, date |-> date, qty |-> qty, price |-> price,
     country |-> country, anonymous |-> FALSE]

RawRow(c, l) ==
    [Invoice     |-> (IF l.credit THEN <<"C">> ELSE <<>>) \o <<Digit[c], Digit[l.k]>>,
     CustomerID  |-> IF l.anonymous THEN <<>> ELSE <<c>>,
     InvoiceDate |-> l.date,
     Quantity    |-> l.qty,
     Price       |-> l.price,
     Country     |-> l.country]

RawFile(profiles) ==
    Concat([c \in 1..Len(profiles) |->
               [i \in 1..Len(profiles[c]) |-> RawRow(c, profiles[c][i])]])

SeqsUpTo(S, n) == UNION {[1..m -> S] : m \in 1..n}

NotRun == [status |-> "none"]

\* December of year 0 is days 330..359, January of year 1 is days 360..389
CohortProfiles ==
    { <<Line(1, FALSE, 335, 1, 1, "United Kingdom")>>,
      <<Line(1, FALSE, 335, 1, 1, "United Kingdom"),
        Line(2, FALSE, 365, 1, 1, "United Kingdom")>>,
      <<Line(1, FALSE, 340, 1, 1, "France"),
        Line(2, FALSE, 370, 1, 1, "United Kingdom")>>,
      <<Line(1, FALSE, 365, 1, 1, "Brazil"),
        Line(2, TRUE, 395, -1, 1, "Brazil")>>,
      <<Line(1, FALSE, 365, 3, 1, "United Kingdom"),
        Line(2, FALSE, 395, 1, 1, "United Kingdom")>>,
      <<[Line(1, FALSE, 335, 1, 1, "France") EXCEPT !.anonymous = TRUE]>>,
      <<Line(1, FALSE, 395, 1, 1, "Brazil"),
        Line(1, FALSE, 395, 1, 1, "Brazil")>> }

MaxCohortCustomers == 3

InitCohort ==
    /\ raw \in {RawFile(ps) : ps \in SeqsUpTo(CohortProfiles, MaxCohortCustomers)}
    /\ csv = [written |-> FALSE, rows |-> <<>>]
    /\ include_returns = TRUE
    /\ rfm = NotRun
    /\ coh = NotRun
    /\ sim = NotRun
    /\ metrics = NotRun
    /\ kpis = NotRun
    /\ cache = NotRun
    /\ loaded = NotRun
    /\ app = NotRun

\* python clean_scenario.py: reads the raw file, writes the clean file
Clean ==
    /\ ~csv.written
    /\ csv' = [written |-> TRUE, rows |-> clean_scenario(raw)]
    /\ UNCHANGED <<raw, include_returns, rfm, coh, sim, metrics, kpis, cache, loaded, app>>

\* One run of the cohort page script.  A rerun starts again from load_data()
\* and reads nothing of the run before it.
Cohortes ==
    /\ csv.written
    /\ coh = NotRun
    /\ IF csv.rows = <<>>
       THEN \* min() of no AcquisitionMonth is NaT: date_input either rejects
            \* it or the script goes on with the empty frame
            coh' \in {[status |-> "error"], CohortPage(<<>>)}
       ELSE \E g \in GeoChoices(csv.rows) :
              LET df1 == GeoFilter(csv.rows, g)
              IN  \E date_range \in DateChoices(df1) :
                    LET df2 == DateFilter(df1, date_range)
                    IN  \E selected_cohortes \in SUBSET CohortOptions(df2) :
                          coh' = CohortPage(CohortFilter(df2, selected_cohortes))
    /\ UNCHANGED <<raw, csv, include_returns, rfm, sim, metrics, kpis, cache, loaded, app>>

NextCohort == Clean \/ Cohortes

SpecCohort == InitCohort /\ [][NextCohort]_vars

-----------------------------------------------------------------------------
(* Segments page on a given transaction frame.                             *)

\* the lines of a frame that passed the cleaning script's outlier filter
CleanFile(profiles) == AddCohortColumns(MarkReturns(WithAmount(RawFile(profiles))))

RfmProfiles ==
    { <<Line(1, FALSE, 10, 1, 1, "United Kingdom")>>,
      <<Line(1, FALSE, 12, 3, 1, "United Kingdom"),
        Line(2, FALSE, 15, 1, 1, "United Kingdom")>>,
      <<Line(1, FALSE, 11, 2, 1, "United Kingdom"),
        Line(2, TRUE, 15, 2, 1, "United Kingdom")>>,
      <<Line(1, FALSE, 17, 5, 1, "United Kingdom")>>,
      <<Line(1, FALSE, 12, 3, 1, "United Kingdom"),
        Line(2, TRUE, 17, 4, 1, "United Kingdom")>> }

MaxRfmCustomers == 5

InitRfm ==
    /\ raw = <<>>
    /\ csv \in {[written |-> TRUE, rows |-> CleanFile(ps)]
                    : ps \in SeqsUpTo(RfmProfiles, MaxRfmCustomers)}
    /\ include_returns \in BOOLEAN
    /\ rfm = NotRun
    /\ coh = NotRun
    /\ sim = NotRun
    /\ metrics = NotRun
    /\ kpis = NotRun
    /\ cache = NotRun
    /\ loaded = NotRun
    /\ app = NotRun

\* segments.show(), line 293, with the period and country filters left at
\* their defaults (the whole frame)
ComputeRfm ==
    /\ csv.written
    /\ rfm = NotRun
    /\ rfm' = compute_rfm(csv.rows, include_returns)
    /\ UNCHANGED <<raw, csv, include_returns, coh, sim, metrics, kpis, cache, loaded, app>>

\* segments.show(), line 294
SegmentRfm ==
    /\ rfm.status = "ok"
    /\ rfm' = [rfm EXCEPT !.status = "segmented", !.rows = segment_rfm(rfm.rows)]
    /\ UNCHANGED <<raw, csv, include_returns, coh, sim, metrics, kpis, cache, loaded, app>>

\* segments.show(), line 295
ComputeSegmentMetrics ==
    /\ rfm.status = "segmented"
    /\ metrics = NotRun
    /\ metrics' = IF SegmentsWithoutPriority(csv.rows, rfm.rows) = {}
                  THEN [status |-> "shown",
                        rows   |-> compute_segment_metrics(csv.rows, rfm.rows)]
                  ELSE [status |-> "KeyError"]
    /\ UNCHANGED <<raw, csv, include_returns, rfm, coh, sim, kpis, cache, loaded, app>>

NextRfm == ComputeRfm \/ SegmentRfm \/ ComputeSegmentMetrics

SpecRfm == InitRfm /\ [][NextRfm]_vars

-----------------------------------------------------------------------------
(* segment_rfm on a table of one row, for every triple of scores.          *)

Scores == 1..NBins

InitSegment ==
    /\ raw = <<>>
    /\ csv = [written |-> FALSE, rows |-> <<>>]
    /\ include_returns = TRUE
    /\ rfm \in {[status |-> "ok",
                 rows   |-> <<[CustomerID |-> 1, R_Score |-> t[1],
                               F_Score |-> t[2], M_Score |-> t[3]]>>]
                    : t \in Scores \X Scores \X Scores}
    /\ coh = NotRun
    /\ sim = NotRun
    /\ metrics = NotRun
    /\ kpis = NotRun
    /\ cache = NotRun
    /\ loaded = NotRun
    /\ app = NotRun

NextSegment == SegmentRfm

SpecSegment == InitSegment /\ [][NextSegment]_vars

-----------------------------------------------------------------------------
(* Scenario page on the files the cleaning script writes.                  *)

ScenarioProfiles ==
    { <<Line(1, FALSE, 335, 1, 100, "United Kingdom")>>,
      <<Line(1, FALSE, 335, 1, 100, "United Kingdom"),
        Line(2, FALSE, 340, 1, 100, "United Kingdom"),
        Line(3, FALSE, 365, 1, 100, "United Kingdom")>>,
      <<Line(1, TRUE, 365, -1, 100, "United Kingdom")>>,
      <<Line(1, FALSE, 335, 1, 100, "United Kingdom"),
        Line(2, TRUE, 370, 1, 100, "United Kingdom")>> }

MaxScenarioCustomers == 3

\* values of the three sliders, within their ranges (lines 46-48)
MargePcts == {-50, 0, 10, 50}
DiscountPcts == {0, 25, 50}
RetentionPcts == {-50, 0, 20}

InitScenario ==
    /\ raw \in {RawFile(ps) : ps \in SeqsUpTo(ScenarioProfiles, MaxScenarioCustomers)}
    /\ csv = [written |-> FALSE, rows |-> <<>>]
    /\ include_returns = TRUE
    /\ rfm = NotRun
    /\ coh = NotRun
    /\ sim = NotRun
    /\ metrics = NotRun
    /\ kpis = NotRun
    /\ cache = NotRun
    /\ loaded = NotRun
    /\ app = NotRun

\* One run of scenario.show().  A rerun starts again from load_data() and
\* reads nothing of the run before it.
Scenario ==
    /\ csv.written
    /\ sim = NotRun
    /\ \E marge_pct \in MargePcts, discount_pct \in DiscountPcts,
          retention_pct \in RetentionPcts,
          cohorte_selection \in {Toutes} \cup CohorteOptions(csv.rows) :
            sim' = ScenarioKpis(csv.rows, marge_pct, discount_pct, retention_pct,
                                cohorte_selection)
    /\ UNCHANGED <<raw, csv, include_returns, rfm, coh, metrics, kpis, cache, loaded, app>>

NextScenario == Clean \/ Scenario

SpecScenario == InitScenario /\ [][NextScenario]_vars

-----------------------------------------------------------------------------
(* Lines 84-85 of scenario.py on any retention and any percentage.         *)

MaxTransactions == 5

\* the fraction of k sales in n transactions; NaN for no transaction
RetentionBaselines ==
    {NaN} \cup {Rat(p[1], p[2]) :
                   p \in {q \in (0..MaxTransactions) \X (1..MaxTransactions) : q[1] <= q[2]}}

AnyPcts == {-150, -100, -50, -10, 0, 20, 50, 200}

InitRetention ==
    /\ raw = <<>>
    /\ csv = [written |-> FALSE, rows |-> <<>>]
    /\ include_returns = TRUE
    /\ rfm = NotRun
    /\ coh = NotRun
    /\ sim \in {[status |-> "input", retention_baseline |-> b, retention_pct |-> p]
                    : b \in RetentionBaselines, p \in AnyPcts}
    /\ metrics = NotRun
    /\ kpis = NotRun
    /\ cache = NotRun
    /\ loaded = NotRun
    /\ app = NotRun

ApplyRetention ==
    /\ sim.status = "input"
    /\ sim' = [status             |-> "applied",
               retention_baseline |-> sim.retention_baseline,
               retention_pct      |-> sim.retention_pct,
               retention_scenario |-> RetentionScenario(sim.retention_baseline,
                                                        sim.retention_pct)]
    /\ UNCHANGED <<raw, csv, include_returns, rfm, coh, metrics, kpis, cache, loaded, app>>

NextRetention == ApplyRetention

SpecRetention == InitRetention /\ [][NextRetention]_vars

-----------------------------------------------------------------------------
(* The retention of the scenario for every value of its slider.            *)

RetentionSliderBelowMinus100 == (-150)..20

\* st.sidebar.slider("Variation retention (%)", -50, 20, 0, 1)
RetentionSlider == (-50)..20

InitSlider ==
    /\ raw = <<>>
    /\ csv = [written |-> FALSE, rows |-> <<>>]
    /\ include_returns = TRUE
    /\ rfm = NotRun /\ coh = NotRun
    /\ sim \in {[status |-> "input", retention_baseline |-> b, retention_pct |-> p]
                    : b \in RetentionBaselines, p \in RetentionSlider}
    /\ metrics = NotRun /\ kpis = NotRun
    /\ cache = NotRun /\ loaded = NotRun /\ app = NotRun

SpecSlider == InitSlider /\ [][NextRetention]_vars

-----------------------------------------------------------------------------
(* Line 60 of segments.py on any Frequency column.                         *)

MaxFrequencyRows == 7

\* numbers of distinct invoices of a customer
Frequencies == 1..3

InitFrequency ==
    /\ raw = <<>>
    /\ csv = [written |-> FALSE, rows |-> <<>>]
    /\ include_returns = TRUE
    /\ rfm \in {[status |-> "aggregated",
                 rows   |-> [i \in 1..Len(f) |-> [CustomerID |-> i, Frequency |-> f[i]]]]
                    : f \in SeqsUpTo(Frequencies, MaxFrequencyRows)}
    /\ coh = NotRun
    /\ sim = NotRun
    /\ metrics = NotRun
    /\ kpis = NotRun
    /\ cache = NotRun
    /\ loaded = NotRun
    /\ app = NotRun

\* rfm['F_Score'] = pd.qcut(rfm['Frequency'].rank(method='first'), 5, ...)
ScoreFrequency ==
    /\ rfm.status = "aggregated"
    /\ LET F == qcut(RankFirst(Column(rfm.rows, "Frequency")), AscendingLabels)
       IN  rfm' = IF F.error # ""
                  THEN [status |-> F.error, rows |-> <<>>]
                  ELSE [status |-> "f_scored",
                        rows   |-> [i \in 1..Len(rfm.rows) |->
                                      [CustomerID |-> rfm.rows[i].CustomerID,
                                       Frequency  |-> rfm.rows[i].Frequency,
                                       F_Score    |-> F.values[i]]]]
    /\ UNCHANGED <<raw, csv, include_returns, coh, sim, metrics, kpis, cache, loaded, app>>

NextFrequency == ScoreFrequency

SpecFrequency == InitFrequency /\ [][NextFrequency]_vars

-----------------------------------------------------------------------------
(* Reruns of the segments page on one loaded frame: every change of a      *)
(* widget runs show() again, and load_data() is cached.                    *)

MaxRerunCustomers == 3

MaxRuns == 3

InitRerun ==
    /\ raw = <<>>
    /\ csv \in {[written |-> TRUE, rows |-> CleanFile(ps)]
                    : ps \in SeqsUpTo(RfmProfiles, MaxRerunCustomers)}
    /\ include_returns \in BOOLEAN
    /\ rfm = [status |-> "runs", runs |-> <<>>]
    /\ coh = NotRun
    /\ sim = NotRun
    /\ metrics = NotRun
    /\ kpis = NotRun
    /\ cache = NotRun
    /\ loaded = NotRun
    /\ app = NotRun

\* the sidebar checkbox "Inclure les retours dans le calcul RFM"
ToggleReturns ==
    /\ Len(rfm.runs) < MaxRuns
    /\ include_returns' = ~include_returns
    /\ UNCHANGED <<raw, csv, rfm, coh, sim, metrics, kpis, cache, loaded, app>>

\* one more call compute_rfm(df, include_returns), its result kept beside
\* the results of the calls before it
Rerun ==
    /\ Len(rfm.runs) < MaxRuns
    /\ rfm' = [rfm EXCEPT !.runs =
                  Append(@, [include_returns |-> include_returns,
                             table |-> compute_rfm(csv.rows, include_returns)])]
    /\ csv' = [csv EXCEPT !.rows = CallerFrameAfterRfm(@, include_returns)]
    /\ UNCHANGED <<raw, include_returns, coh, sim, metrics, kpis, cache, loaded, app>>

NextRerun == ToggleReturns \/ Rerun

SpecRerun == InitRerun /\ [][NextRerun]_vars

-----------------------------------------------------------------------------
(* Overview page on a given transaction frame.                             *)

\* day 425 is 90 days after day 335, and day 431 is 91 days after day 340
OverviewProfiles ==
    { <<Line(1, FALSE, 335, 3, 1, "United Kingdom")>>,
      <<Line(1, FALSE, 335, 2, 1, "United Kingdom"),
        Line(2, FALSE, 425, 4, 1, "United Kingdom")>>,
      <<Line(1, FALSE, 340, 5, 1, "France"),
        Line(2, FALSE, 431, 7, 1, "France")>>,
      <<Line(1, FALSE, 365, 2, 1, "United Kingdom"),
        Line(2, TRUE, 370, 2, 1, "United Kingdom")>>,
      <<Line(1, TRUE, 365, 3, 1, "Brazil")>> }

MaxOverviewCustomers == 3

InitOverview ==
    /\ raw = <<>>
    /\ csv \in {[written |-> TRUE, rows |-> <<>>]}
                 \cup {[written |-> TRUE, rows |-> CleanFile(ps)]
                          : ps \in SeqsUpTo(OverviewProfiles, MaxOverviewCustomers)}
    /\ include_returns = TRUE
    /\ rfm = NotRun
    /\ coh = NotRun
    /\ sim = NotRun
    /\ metrics = NotRun
    /\ kpis = NotRun
    /\ cache = NotRun
    /\ loaded = NotRun
    /\ app = NotRun

\* overview.py, show(), lines 103-106: compute_kpis works on its own copy
Overview ==
    /\ csv.written
    /\ kpis = NotRun
    /\ kpis' \in KpisOutcomes(csv.rows)
    /\ UNCHANGED <<raw, csv, include_returns, rfm, coh, sim, metrics, cache, loaded, app>>

\* overview(vide).py, main(), lines 115-125: the header needs the first and
\* last date, which no row gives; compute_kpis assigns CohortAge on the frame
\* of its caller
OverviewVide ==
    /\ csv.written
    /\ kpis = NotRun
    /\ IF csv.rows = <<>>
       THEN kpis' = [status |-> "error"] /\ csv' = csv
       ELSE /\ kpis' = compute_kpis(csv.rows)
            /\ csv' = [csv EXCEPT !.rows = AssignCohortAge(csv.rows)]
    /\ UNCHANGED <<raw, include_returns, rfm, coh, sim, metrics, cache, loaded, app>>

NextOverview == Overview \/ OverviewVide

SpecOverview == InitOverview /\ [][NextOverview]_vars

-----------------------------------------------------------------------------
(* The loaders on files of other exports: columns may be missing.          *)

LoadProfiles ==
    { <<Line(1, FALSE, 335, 2, 3, "United Kingdom")>>,
      <<Line(1, FALSE, 335, 2, 3, "France"),
        Line(2, TRUE, 365, -1, 3, "France")>> }

MaxLoadCustomers == 2

\* the reads of one loader that the model follows
MaxReads == 2

Droppable == {"AmountNet", "Amount", "Quantity", "IsReturn", "AcquisitionMonth"}

Dropped(file, cols) ==
    [i \in 1..Len(file) |-> [c \in DOMAIN file[i] \ cols |-> file[i][c]]]

\* st.cache_data before the first call of every loader
EmptyCache == [p \in Loaders |-> [status |-> "empty", reads |-> 0]]

InitLoad ==
    /\ \E ps \in SeqsUpTo(LoadProfiles, MaxLoadCustomers), cols \in SUBSET Droppable :
          /\ raw = RawFile(ps)
          /\ csv = [written |-> TRUE, rows |-> Dropped(clean_scenario(raw), cols)]
    /\ include_returns = FALSE
    /\ rfm = NotRun /\ coh = NotRun /\ sim = NotRun
    /\ metrics = NotRun /\ kpis = NotRun
    /\ cache = EmptyCache /\ loaded = NotRun /\ app = NotRun

\* an interaction reruns the page, and the page calls its load_data():
\* st.cache_data gives the stored frame of the function when there is one,
\* runs the function otherwise, and stores what it returns, not what it raises
CallLoadData(p) ==
    /\ csv.written
    /\ IF cache[p].status = "cached"
       THEN /\ loaded' = [loader |-> p, result |-> cache[p].value]
            /\ cache' = cache
       ELSE /\ cache[p].reads < MaxReads
            /\ LET result == load_data(p, csv.rows)
               IN  /\ loaded' = [loader |-> p, result |-> result]
                   /\ cache' = [cache EXCEPT ![p] =
                                   IF result.status = "ok"
                                   THEN [status |-> "cached", value |-> result,
                                         reads |-> @.reads + 1]
                                   ELSE [status |-> "empty", reads |-> @.reads + 1]]
    /\ UNCHANGED <<raw, csv, include_returns, rfm, coh, sim, metrics, kpis, app>>

LoadOverview == CallLoadData("overview")

LoadCohortes == CallLoadData("cohortes")

LoadSegments == CallLoadData("segments")

LoadScenario == CallLoadData("scenario")

NextLoad == LoadOverview \/ LoadCohortes \/ LoadSegments \/ LoadScenario

SpecLoad == InitLoad /\ [][NextLoad]_vars

-----------------------------------------------------------------------------
(* The loaders while the cleaning script writes the file again.            *)

MaxReloadCustomers == 1

InitReload ==
    /\ \E ps \in SeqsUpTo(LoadProfiles, MaxReloadCustomers) :
          /\ raw = RawFile(ps)
          /\ csv = [written |-> TRUE, rows |-> clean_scenario(raw)]
    /\ include_returns = FALSE
    /\ rfm = NotRun /\ coh = NotRun /\ sim = NotRun
    /\ metrics = NotRun /\ kpis = NotRun
    /\ cache = EmptyCache /\ loaded = NotRun /\ app = NotRun

\* clean_scenario.py run on another raw file while the application runs: the
\* file of the loaders has a new content, and nothing tells st.cache_data;
\* reads counts the reads of the file as it now is
SourceChanges ==
    /\ \E ps \in SeqsUpTo(LoadProfiles, MaxReloadCustomers) :
          /\ RawFile(ps) # raw
          /\ raw' = RawFile(ps)
          /\ csv' = [written |-> TRUE, rows |-> clean_scenario(raw')]
    /\ cache' = [p \in Loaders |-> [cache[p] EXCEPT !.reads = 0]]
    /\ UNCHANGED <<include_returns, rfm, coh, sim, metrics, kpis, loaded, app>>

NextReload == NextLoad \/ SourceChanges

SpecReload == InitReload /\ [][NextReload]_vars

-----------------------------------------------------------------------------
(* app.py: the script that streamlit runs, top to bottom, at the start and *)
(* again at every interaction.                                             *)

MaxAppCustomers == 2

\* the runs of the script that the model follows
MaxAppRuns == 3

InitApp ==
    /\ raw \in {RawFile(ps) : ps \in SeqsUpTo(CohortProfiles, MaxAppCustomers)}
    /\ csv = [written |-> TRUE, rows |-> clean_scenario(raw)]
    /\ include_returns = TRUE
    /\ rfm = NotRun /\ coh = NotRun /\ sim = NotRun
    /\ metrics = NotRun /\ kpis = NotRun
    /\ cache = EmptyCache /\ loaded = NotRun
    /\ app = [status |-> "starting", page |-> "none", runs |-> 0]

\* the widgets of cohortes.py at their first values: "Tous", the whole
\* range of the acquisition months, every cohort selected
DefaultCohortFrame(df) ==
    LET df1 == GeoFilter(df, [geo_filter |-> "Tous", choice |-> {}])
        acq == Range(Column(df1, "AcquisitionMonth"))
        df2 == DateFilter(df1, <<SetMin(acq), SetMax(acq)>>)
    IN  CohortFilter(df2, CohortOptions(df2))

\* the first run.  Lines 12-13 import two modules that only define
\* functions.  Line 14, from pages.cohortes import show, runs the body of
\* cohortes.py, which is the cohort page itself (load_data, filters, cohort
\* age, retention matrix), and then finds no name show in it: the import
\* raises and the run ends before the selectbox of line 31
AppStart ==
    /\ app # NotRun
    /\ app.status = "starting"
    /\ LET result == load_data("cohortes", csv.rows)
       IN  /\ loaded' = [loader |-> "cohortes", result |-> result]
           /\ cache' = [cache EXCEPT !["cohortes"] =
                           [status |-> "cached", value |-> result, reads |-> 1]]
           /\ IF result.rows = <<>>
              THEN coh' \in {[status |-> "error"], CohortPage(<<>>)}
              ELSE coh' = CohortPage(DefaultCohortFrame(result.rows))
    /\ app' = [status |-> "raised", page |-> "none", runs |-> 1]
    /\ UNCHANGED <<raw, csv, include_returns, rfm, sim, metrics, kpis>>

\* an interaction: the script runs again and stops at the same import
AppRerun ==
    /\ app # NotRun
    /\ app.status = "raised"
    /\ app.runs < MaxAppRuns
    /\ app' = [app EXCEPT !.runs = @ + 1]
    /\ UNCHANGED <<raw, csv, include_returns, rfm, coh, sim, metrics, kpis, cache, loaded>>

NextApp == AppStart \/ AppRerun

SpecApp == InitApp /\ [][NextApp]_vars

-----------------------------------------------------------------------------
(* The three RFM tables of the repository on one file.                     *)

\* cohortes.py lines 203-207: the table of the cohort page, before its scores
CohortesRfm(df) ==
    LET last_date == SetMax(Range(Column(df, "InvoiceDate")))
        customers == Customers(df)
    IN  [i \in 1..Len(customers) |->
            LET rows == RowsOf(df, customers[i])
            IN  [CustomerID |-> customers[i],
                 Recency    |-> last_date - SetMax(Range(Column(rows, "InvoiceDate"))),
                 Frequency  |-> Len(Column(rows, "InvoiceNo")),
                 Monetary   |-> SumSeq(Column(rows, "AmountNet"))]]

\* the second profile is one invoice of two lines
TablesProfiles ==
    { <<Line(1, FALSE, 10, 1, 1, "United Kingdom")>>,
      <<Line(1, FALSE, 11, 2, 1, "United Kingdom"),
        Line(1, FALSE, 11, 3, 1, "United Kingdom")>>,
      <<Line(1, FALSE, 12, 3, 1, "United Kingdom"),
        Line(2, FALSE, 15, 1, 1, "United Kingdom")>>,
      <<Line(1, FALSE, 13, 2, 1, "United Kingdom")>>,
      <<Line(1, FALSE, 17, 7, 1, "United Kingdom")>> }

MaxTablesCustomers == 3

InitTables ==
    /\ raw = <<>>
    /\ csv \in {[written |-> TRUE, rows |-> CleanFile(ps)]
                    : ps \in SeqsUpTo(TablesProfiles, MaxTablesCustomers)}
    /\ include_returns = TRUE
    /\ rfm = NotRun /\ coh = NotRun /\ sim = NotRun
    /\ metrics = NotRun /\ kpis = NotRun
    /\ cache = NotRun /\ loaded = NotRun /\ app = NotRun

\* the end of the cohort page, with its filters left as they start
CohortesTable ==
    /\ csv.written
    /\ coh = NotRun
    /\ coh' = [status |-> "rfm", rows |-> CohortesRfm(csv.rows)]
    /\ UNCHANGED <<raw, csv, include_returns, rfm, sim, metrics, kpis, cache, loaded, app>>

\* compute_rfm of overview.py, as compute_kpis calls it
OverviewTable ==
    /\ csv.written
    /\ kpis = NotRun
    /\ kpis' = [status |-> "rfm", rows |-> OverviewRfm(csv.rows)]
    /\ UNCHANGED <<raw, csv, include_returns, rfm, coh, sim, metrics, cache, loaded, app>>

NextTables == ComputeRfm \/ CohortesTable \/ OverviewTable

SpecTables == InitTables /\ [][NextTables]_vars

-----------------------------------------------------------------------------
(* Segments page: segment rules and RFM table.                             *)

Triples == Scores \X Scores \X Scores

\* the rule table of the specification, in its order; each rule is the set
\* of the score triples it matches
RuleTable ==
    << [segment |-> "Champions",
        matches |-> {t \in Triples : t[1] >= 4 /\ t[2] >= 4 /\ t[3] >= 4}],
       [segment |-> "Loyaux",
        matches |-> {t \in Triples : t[1] >= 3 /\ t[2] >= 4 /\ t[3] >= 4}],
       [segment |-> "Potentiels Loyaux",
        matches |-> {t \in Triples : t[1] >= 4 /\ t[2] >= 3 /\ t[3] >= 3}],
       [segment |-> "Nouveaux",
        matches |-> {t \in Triples : t[1] >= 4 /\ t[2] <= 2}],
       [segment |-> "Prometteurs",
        matches |-> {t \in Triples : t[1] >= 3 /\ t[2] <= 2 /\ t[3] >= 3}],
       [segment |-> "Besoin d'Attention",
        matches |-> {t \in Triples : t[1] = 3 /\ t[2] >= 3 /\ t[3] >= 3}],
       [segment |-> "A Risque",
        matches |-> {t \in Triples : t[1] <= 2 /\ t[2] >= 3 /\ t[3] >= 3}],
       [segment |-> "Hibernants",
        matches |-> {t \in Triples : t[1] <= 2 /\ t[2] <= 2 /\ t[3] >= 3}],
       [segment |-> "Perdus",
        matches |-> {t \in Triples : t[1] <= 2 /\ t[2] <= 2 /\ t[3] <= 2}] >>

MatchingRules(t) == {k \in 1..Len(RuleTable) : t \in RuleTable[k].matches}

FirstMatch(t) ==
    IF MatchingRules(t) = {} THEN "Autres"
    ELSE RuleTable[SetMin(MatchingRules(t))].segment

ScoresOfRow(r) == <<r.R_Score, r.F_Score, r.M_Score>>

Returned == rfm.status \in {"ok", "segmented"}

ScoreChars == {"1", "2", "3", "4", "5"}

\* C2: on every row compute_rfm returns, RFM_Score is a string of exactly
\* 3 characters, each one of "1".."5": the R, F and M scores in that order.
C2_RfmScoreThreeDigits ==
    Returned =>
        \A i \in 1..Len(rfm.rows) :
            LET r == rfm.rows[i]
            IN  /\ Len(r.RFM_Score) = 3
                /\ \A k \in 1..Len(r.RFM_Score) : r.RFM_Score[k] \in ScoreChars
                /\ r.RFM_Score = Str(r.R_Score) \o Str(r.F_Score) \o Str(r.M_Score)

\* five customers scored, every level of every score in use
C2_Witness ==
    /\ rfm.status = "ok"
    /\ Len(rfm.rows) = NBins
    /\ {rfm.rows[i].R_Score : i \in 1..Len(rfm.rows)} = Scores
    /\ {rfm.rows[i].F_Score : i \in 1..Len(rfm.rows)} = Scores
    /\ {rfm.rows[i].M_Score : i \in 1..Len(rfm.rows)} = Scores

\* the transactions compute_rfm considers, and each customer's net amount
Considered ==
    IF include_returns THEN csv.rows
    ELSE SelectSeq(csv.rows, LAMBDA r : ~r.IsReturn)

NetOf(c) == SumSeq(Column(SelectSeq(Considered, LAMBDA r : r.CustomerID = c), "AmountNet"))

KeptCustomers == {c \in Range(Column(Considered, "CustomerID")) : NetOf(c) > 0}

ScoreTable(rows) ==
    {<<rows[i].CustomerID, rows[i].R_Score, rows[i].F_Score, rows[i].M_Score>>
        : i \in 1..Len(rows)}

\* C3: the customers compute_rfm returns are exactly those whose summed
\* AmountNet over the considered transactions is > 0, and their scores are
\* those of the same transactions without the excluded customers: the
\* exclusion comes before the scoring.
C3_NetReturnersExcluded ==
    Returned =>
        /\ {rfm.rows[i].CustomerID : i \in 1..Len(rfm.rows)} = KeptCustomers
        /\ ScoreTable(rfm.rows) =
              ScoreTable(compute_rfm(
                  SelectSeq(csv.rows, LAMBDA r : r.CustomerID \in KeptCustomers),
                  include_returns).rows)

\* a table returned while a customer with a net amount of 0 and a customer
\* with a negative net amount are left out
C3_Witness ==
    /\ rfm.status = "ok"
    /\ Len(rfm.rows) >= 3
    /\ \E c \in Range(Column(Considered, "CustomerID")) : NetOf(c) = 0
    /\ \E c \in Range(Column(Considered, "CustomerID")) : NetOf(c) < 0

Levels(rows, col) == {rows[i][col] : i \in 1..Len(rows)}

\* C4: when the values scored have too few distinct values for 5 quantile
\* buckets (a single customer included), compute_rfm does not raise: the
\* duplicate edges are collapsed and the scores come from fewer than 5 levels.
C4_CollapsedEdgesDoNotRaise ==
    (/\ rfm # NotRun
     /\ \E dim \in {"R", "F", "M"} : Len(rfm.bins[dim]) < NBins + 1)
        => /\ Returned
           /\ \E col \in {"R_Score", "F_Score", "M_Score"} :
                 Cardinality(Levels(rfm.rows, col)) < NBins

\* the segments of the transactions joined to the RFM table
JoinedSegments ==
    {x.Segment : x \in {y \in Range(rfm.rows) :
                           \E r \in Range(csv.rows) : r.CustomerID = y.CustomerID}}

\* C12: the table of compute_segment_metrics has exactly one row per segment
\* present in the joined data, and its rows are in strictly ascending
\* priority rank.
C12_MetricsSortedByPriority ==
    metrics.status = "shown" =>
        /\ {metrics.rows[i].Segment : i \in 1..Len(metrics.rows)} = JoinedSegments
        /\ Len(metrics.rows) = Cardinality(JoinedSegments)
        /\ \A i, j \in 1..Len(metrics.rows) :
              i < j => metrics.rows[i].Priorite < metrics.rows[j].Priorite

\* three segments or more, the group of Autres among them: the order of the
\* group keys is not the order of the ranks
C12_Witness ==
    /\ metrics.status = "shown"
    /\ Len(metrics.rows) >= 3
    /\ metrics.rows[Len(metrics.rows)].Segment = "Autres"

ClientsTotal == SumSeq(Column(metrics.rows, "Clients"))

\* C13: the Clients column of compute_segment_metrics sums to at most the
\* number of distinct customers with a positive monetary value, and to exactly
\* that number when no bin edge was collapsed; every customer is counted in
\* the one segment of its RFM row, whatever include_returns is.
C13_ClientsSumToScoredCustomers ==
    metrics.status = "shown" =>
        /\ ClientsTotal <= Cardinality(KeptCustomers)
        /\ (\A dim \in {"R", "F", "M"} : Len(rfm.bins[dim]) = NBins + 1)
              => ClientsTotal = Cardinality(KeptCustomers)
        /\ \A i \in 1..Len(metrics.rows) :
              metrics.rows[i].Clients =
                  Cardinality({x \in Range(rfm.rows) :
                                  x.Segment = metrics.rows[i].Segment})

\* the join leaves out a customer of the frame, and a customer kept has two
\* invoices
C13_Witness ==
    /\ metrics.status = "shown"
    /\ Len(metrics.rows) >= 2
    /\ Range(Column(csv.rows, "CustomerID")) # KeptCustomers
    /\ \E i \in 1..Len(metrics.rows) :
          metrics.rows[i].Transactions > metrics.rows[i].Clients

\* C14: the priority table has exactly 10 segments, the ones segment_rfm can
\* assign; their ranks are the integers 1..10, each used once, Champions at
\* rank 1 and Autres at rank 10; every entry has an action and a description,
\* and the segment metrics carry the rank and the action of the table.
C14_TenSegmentsRankedOnce ==
    LET priorities == get_segment_priorities
    IN  /\ Cardinality(DOMAIN priorities) = 10
        /\ DOMAIN priorities = {assign_segment(t[1], t[2], t[3]) : t \in Triples}
        /\ {priorities[g].priority : g \in DOMAIN priorities} = 1..10
        /\ priorities["Champions"].priority = 1
        /\ priorities["Autres"].priority = 10
        /\ \A g \in DOMAIN priorities :
              /\ {"action", "description"} \subseteq DOMAIN priorities[g]
              /\ priorities[g].action # ""
              /\ priorities[g].description # ""
        /\ metrics.status = "shown" =>
              \A i \in 1..Len(metrics.rows) :
                 /\ metrics.rows[i].Priorite \in 1..10
                 /\ metrics.rows[i].Priorite
                       = priorities[metrics.rows[i].Segment].priority
                 /\ metrics.rows[i].Action
                       = priorities[metrics.rows[i].Segment].action

\* a metrics table from the rank 1 segment to the rank 10 segment
C14_Witness ==
    /\ metrics.status = "shown"
    /\ metrics.rows[1].Segment = "Champions"
    /\ metrics.rows[1].Priorite = 1
    /\ metrics.rows[Len(metrics.rows)].Segment = "Autres"
    /\ metrics.rows[Len(metrics.rows)].Priorite = 10

\* the last invoice date of the transactions scored, and of one customer
LastDate == SetMax({r.InvoiceDate : r \in Range(Considered)})

LastDateOf(c) == SetMax({r.InvoiceDate : r \in {x \in Range(Considered) : x.CustomerID = c}})

\* C15: in the RFM table, recency is the number of days from the customer's
\* last invoice date to the day after the last invoice date of the
\* transactions scored (returns left out when include_returns is false): it
\* is >= 1, and exactly 1 for a customer holding the last date.  The overview
\* page's compute_rfm gives the same on the frame it is given.
C15_RecencyFromDayAfterLastDate ==
    /\ Returned =>
          \A i \in 1..Len(rfm.rows) :
              LET r == rfm.rows[i]
              IN  /\ r.Recency = (LastDate + 1) - LastDateOf(r.CustomerID)
                  /\ r.Recency >= 1
                  /\ LastDateOf(r.CustomerID) = LastDate => r.Recency = 1
    /\ \A r \in Range(OverviewRfm(csv.rows)) :
          /\ r.Recency = (SetMax(Range(Column(csv.rows, "InvoiceDate"))) + 1)
                            - SetMax(Range(Column(RowsOf(csv.rows, r.CustomerID),
                                                  "InvoiceDate")))
          /\ r.Recency >= 1

\* returns are left out and the last date of the frame is the date of a
\* return: the snapshot is the day after the last sale
C15_Witness ==
    /\ rfm.status = "ok"
    /\ ~include_returns
    /\ SetMax(Range(Column(csv.rows, "InvoiceDate"))) > LastDate
    /\ Len(rfm.rows) >= 3
    /\ \E i, j \in 1..Len(rfm.rows) : rfm.rows[i].Recency = 1 /\ rfm.rows[j].Recency > 1

\* C16: among the customers scored, a lower recency never has a lower
\* R_Score and a lower monetary value never has a higher M_Score; the
\* customers of the lowest recency bucket, the lowest recency among them,
\* have R_Score 5.
C16_RecencyInvertedMonetaryAscending ==
    Returned =>
        /\ \A a, b \in Range(rfm.rows) :
              /\ a.Recency < b.Recency => a.R_Score >= b.R_Score
              /\ a.Monetary < b.Monetary => a.M_Score <= b.M_Score
        /\ \A a \in Range(rfm.rows) :
              /\ NBins * a.Recency <= rfm.bins.R[2] => a.R_Score = 5
              /\ (\A b \in Range(rfm.rows) : a.Recency <= b.Recency) => a.R_Score = 5

\* scores that differ: the most recent customer at 5 and the least recent at
\* 1, the smallest monetary value at 1 and the largest at 5
C16_Witness ==
    /\ rfm.status = "ok"
    /\ \E a, b \in Range(rfm.rows) :
          /\ a.Recency < b.Recency /\ a.R_Score = 5 /\ b.R_Score = 1
    /\ \E a, b \in Range(rfm.rows) :
          /\ a.Monetary < b.Monetary /\ a.M_Score = 1 /\ b.M_Score = 5

\* the number of rows of the table with F_Score k
BucketSize(k) == Cardinality({i \in 1..Len(rfm.rows) : rfm.rows[i].F_Score = k})

\* C17: F_Score bins the first-come ranks of Frequency into 5 buckets of
\* equal population: with 5 rows or more the five levels are all used and
\* the bucket sizes differ by at most one; a strictly higher frequency never
\* has a lower F_Score, and of two rows of equal frequency the earlier never
\* has the higher F_Score.
C17_FrequencyRankedFirstCome ==
    rfm.status = "f_scored" =>
        /\ Len(rfm.rows) >= NBins =>
              /\ {rfm.rows[i].F_Score : i \in 1..Len(rfm.rows)} = Scores
              /\ \A k, l \in Scores : BucketSize(k) - BucketSize(l) <= 1
        /\ \A i, j \in 1..Len(rfm.rows) :
              /\ rfm.rows[i].Frequency > rfm.rows[j].Frequency
                    => rfm.rows[i].F_Score >= rfm.rows[j].F_Score
              /\ (i < j /\ rfm.rows[i].Frequency = rfm.rows[j].Frequency)
                    => rfm.rows[i].F_Score <= rfm.rows[j].F_Score

\* more rows than buckets, buckets of two sizes, and two rows of equal
\* frequency with different scores
C17_Witness ==
    /\ rfm.status = "f_scored"
    /\ Len(rfm.rows) > NBins
    /\ \E k, l \in Scores : BucketSize(k) = BucketSize(l) + 1
    /\ \E i, j \in 1..Len(rfm.rows) :
          /\ i < j
          /\ rfm.rows[i].Frequency = rfm.rows[j].Frequency
          /\ rfm.rows[i].F_Score < rfm.rows[j].F_Score

-----------------------------------------------------------------------------
(* Cohort page: retention matrix and cohort age.                           *)

One == FromInt(1)

\* C5: in the retention matrix, every acquisition cohort that has a row has a
\* cell at cohort age 0 and its retention rate is exactly 1.0, whatever the
\* geographic, acquisition-date and cohort filters were.
C5_RetentionAtAgeZeroIsOne ==
    coh.status = "shown" =>
        \A a \in DOMAIN coh.retention_matrix :
            /\ 0 \in DOMAIN coh.retention_matrix[a]
            /\ FEq(coh.retention_matrix[a][0], One)

\* a filtered run whose matrix has two cohorts and a rate other than 1
C5_Witness ==
    /\ coh.status = "shown"
    /\ Cardinality(DOMAIN coh.retention_matrix) >= 2
    /\ Len(coh.df) < Len(csv.rows)
    /\ \E g \in coh.cohort_data : g.CohortAge > 0 /\ ~FEq(g.RetentionRate, One)

\* C6: every retention rate lies in [0,1]: the customers active at an age
\* never outnumber the cohort size counted at age 0.
C6_RetentionRateAtMostOne ==
    coh.status = "shown" =>
        \A g \in coh.cohort_data :
            /\ g.CustomerID <= g.CohortSize
            /\ ~FLt(One, g.RetentionRate)
            /\ ~FLt(g.RetentionRate, FromInt(0))

\* C7: acquisition_month is constant per customer and <= every invoice_month
\* of the customer, so the cohort age the page computes is >= 0 on every row
\* the filters left.
C7_CohortAgeNonNegative ==
    /\ \A i \in 1..Len(csv.rows) :
          /\ csv.rows[i].AcquisitionMonth <= csv.rows[i].InvoiceMonth
          /\ \A j \in 1..Len(csv.rows) :
                csv.rows[i].CustomerID = csv.rows[j].CustomerID
                    => csv.rows[i].AcquisitionMonth = csv.rows[j].AcquisitionMonth
    /\ coh.status = "shown" => \A i \in 1..Len(coh.df) : coh.df[i].CohortAge >= 0

\* the filters removed a customer's first month and kept a later one, across
\* the change of year
C7_Witness ==
    /\ coh.status = "shown"
    /\ \E i \in 1..Len(coh.df) :
          /\ coh.df[i].CohortAge > 0
          /\ Year(coh.df[i].InvoiceMonth) > Year(coh.df[i].AcquisitionMonth)
          /\ \A j \in 1..Len(coh.df) :
                coh.df[j].CustomerID = coh.df[i].CustomerID => coh.df[j].CohortAge > 0

-----------------------------------------------------------------------------
(* Scenario page: baseline and scenario KPIs.                              *)

Zero == FromInt(0)

\* the subset of the run shown, its total and its mean per customer
ShownFrame == SimFrame(csv.rows, sim.cohorte_selection)

ShownTotal == SumSeq(Column(ShownFrame, "AmountNet"))

ShownCustomers == Cardinality(Range(Column(ShownFrame, "CustomerID")))

\* (1 + marge_pct/100) * (1 - discount_pct/100) * retention_scenario / retention_baseline
ShownFactor ==
    FMul(Rat((100 + sim.marge_pct) * (100 - sim.discount_pct), 10000),
         FDiv(sim.retention_scenario, sim.retention_baseline))

\* C8: with marge_pct = 0, discount_pct = 0 and retention_pct = 0 the scenario
\* KPIs equal the baseline KPIs, on every subset.
C8_ZeroScenarioIsBaseline ==
    (/\ sim.status = "shown"
     /\ sim.marge_pct = 0 /\ sim.discount_pct = 0 /\ sim.retention_pct = 0)
        => /\ FEq(sim.clv_scenario, sim.clv_baseline)
           /\ FEq(sim.ca_scenario, sim.ca_baseline)
           /\ FEq(sim.retention_scenario, sim.retention_baseline)

\* C9: when retention_baseline > 0, ca_scenario is the sum of amount_net
\* times (1 + marge_pct/100)(1 - discount_pct/100) retention_scenario /
\* retention_baseline, and clv_scenario is the mean per-customer sum times
\* the same factor; customers spending 100 and 300 with marge_pct = 10 and
\* no discount or retention change give clv_baseline 200 and ca_scenario 440.
C9_ScenarioKpisAreScaledBaseline ==
    (sim.status = "shown" /\ FLt(Zero, sim.retention_baseline)) =>
        /\ FEq(sim.ca_scenario, FMul(FromInt(ShownTotal), ShownFactor))
        /\ FEq(sim.clv_scenario,
               FMul(Rat(ShownTotal, ShownCustomers), ShownFactor))
        /\ FEq(sim.clv_baseline, Rat(ShownTotal, ShownCustomers))
        /\ (/\ Column(csv.rows, "AmountNet") = <<100, 100, 100, 100>>
            /\ Column(csv.rows, "CustomerID") = <<1, 2, 2, 2>>
            /\ sim.cohorte_selection = Toutes
            /\ sim.marge_pct = 10 /\ sim.discount_pct = 0 /\ sim.retention_pct = 0)
              => /\ sim.clv_baseline = FromInt(200)
                 /\ sim.ca_scenario = FromInt(440)

\* a run with a discount, a margin change and a retention change on a subset
\* that holds sales and returns
C9_Witness ==
    /\ sim.status = "shown"
    /\ sim.marge_pct = 10 /\ sim.discount_pct = 25 /\ sim.retention_pct = -50
    /\ FLt(Zero, sim.retention_baseline) /\ FLt(sim.retention_baseline, One)
    /\ sim.cohorte_selection # Toutes
    /\ ShownCustomers >= 2

\* C10: retention_scenario is min(1, retention_baseline * (1 +
\* retention_pct/100)): it never exceeds 1, and a product below 0 is kept as
\* it is (no lower clamp).
C10_RetentionClampedAboveOnly ==
    sim.status = "applied" =>
        LET b       == sim.retention_baseline
            product == Rat(b.n * (100 + sim.retention_pct), b.d * 100)
        IN  /\ ~FLt(One, sim.retention_scenario)
            /\ ~IsNaN(b) =>
                  /\ FLt(One, product) => sim.retention_scenario = One
                  /\ ~FLt(One, product) => sim.retention_scenario = product
                  /\ FLt(product, Zero) => FLt(sim.retention_scenario, Zero)

\* a product below 0, kept below 0
C10_Witness ==
    /\ sim.status = "applied"
    /\ sim.retention_pct < -100
    /\ FLt(sim.retention_scenario, Zero)

-----------------------------------------------------------------------------
(* Overview page: headline KPIs.                                           *)

\* C11: when the frame given to a ratio computation has no row, the
\* computation fails or reports that there is no data: the KPI it leaves is
\* never NaN, 0 or another value of a division by zero.
C11_EmptySubsetFailsExplicitly ==
    (csv.rows = <<>> /\ kpis # NotRun) => kpis.status # "returned"

\* C19: no operation changes the transaction frame it is given: across
\* every call the frame of the caller keeps its rows and its columns, the
\* derived columns (CohortAge, FirstPurchase) living in a copy only.
C19_DatasetNotMutated == [][csv' = csv]_vars

\* the transactions dated at most 90 days after the first purchase of their
\* customer
EarlyRows ==
    SelectSeq(csv.rows, LAMBDA r :
        \A x \in Range(csv.rows) :
            x.CustomerID = r.CustomerID => r.InvoiceDate - x.InvoiceDate <= 90)

EarlyCustomers == Range(Column(EarlyRows, "CustomerID"))

\* C20: north_star is the sum of AmountNet over the transactions within 90
\* days of their customer's first purchase, divided by the number of distinct
\* customers with such a transaction, and 0 when there is none (no row).
C20_NorthStarIsEarlyRevenuePerCustomer ==
    kpis.status = "returned" =>
        IF EarlyCustomers = {} THEN kpis.north_star = FromInt(0)
        ELSE kpis.north_star
                = Rat(SumSeq(Column(EarlyRows, "AmountNet")), Cardinality(EarlyCustomers))

\* a purchase on the 90th day counted, a purchase on the 91st day left out
\* and a return counted
C20_Witness ==
    /\ kpis.status = "returned"
    /\ Len(EarlyRows) < Len(csv.rows)
    /\ \E r, x \in Range(EarlyRows) :
          x.CustomerID = r.CustomerID /\ r.InvoiceDate - x.InvoiceDate = 90
    /\ \E r \in Range(EarlyRows) : r.IsReturn
    /\ Cardinality(EarlyCustomers) = 3

-----------------------------------------------------------------------------
(* Cleaning script: the file it writes.                                    *)

\* C21: in the file the cleaning script writes, every line whose invoice
\* number starts with "C" has AmountNet <= 0, a return recorded with a
\* negative quantity included, and every other line has AmountNet >= 0.
C21_NetAmountSignFollowsReturn ==
    csv.written =>
        \A r \in Range(csv.rows) :
            /\ r.IsReturn = StartsWithC(r.InvoiceNo)
            /\ r.IsReturn => r.AmountNet <= 0
            /\ ~r.IsReturn => r.AmountNet >= 0

-----------------------------------------------------------------------------
(* Loaders: the fallback of AmountNet.                                     *)

\* the documented chain on one row of a file with the columns cols
ChainResolves(cols) ==
    \/ "AmountNet" \in cols
    \/ "Amount" \in cols
    \/ {"Quantity", "UnitPrice"} \subseteq cols

ChainValue(r) ==
    IF "AmountNet" \in DOMAIN r THEN r.AmountNet
    ELSE IF "Amount" \in DOMAIN r THEN r.Amount
    ELSE r.Quantity * r.UnitPrice

\* the columns every loader names apart from the chain
Required == ParseDates \cup {"CustomerID"}

\* C22: every page's loader resolves AmountNet by the same chain (the
\* file's AmountNet, otherwise Amount, otherwise Quantity x UnitPrice), and
\* a load that fails names a column the file does not have
C22_SameFallbackChainInEveryLoader ==
    loaded # NotRun =>
        LET cols   == Columns(csv.rows)
            result == loaded.result
        IN  /\ (ChainResolves(cols) /\ Required \subseteq cols) =>
                  /\ result.status = "ok"
                  /\ Len(result.rows) = Len(csv.rows)
                  /\ \A i \in 1..Len(csv.rows) :
                        /\ "AmountNet" \in DOMAIN result.rows[i]
                        /\ result.rows[i].AmountNet = ChainValue(csv.rows[i])
            /\ ~ChainResolves(cols) =>
                  /\ result.status # "ok"
                  /\ result.column \notin cols

-----------------------------------------------------------------------------
(* Loaders: the cache and the source file.                                 *)

\* C23: over any interactions a loader reads the file at most once while
\* the file is unchanged, and the interaction after a change of the file
\* gets the load of the new content, not the stored one
C23_ReadOncePerSourceReloadOnChange ==
    [][\A p \in Loaders :
          CallLoadData(p) =>
              /\ cache'[p].reads <= 1
              /\ loaded'.result = load_data(p, csv.rows)]_vars

-----------------------------------------------------------------------------
(* Navigation.                                                             *)

\* C24: from the start the script reaches the navigation, where each of
\* the four pages can be selected, and the cohort computation has run only
\* when "Cohortes" is the page selected
C24_CohortPageRunsOnlyWhenSelected ==
    (app # NotRun /\ app.status # "starting") =>
        /\ app.status = "navigation"
        /\ app.page \in {"Overview", "Cohortes", "Segments", "Scenarios"}
        /\ coh # NotRun => app.page = "Cohortes"

-----------------------------------------------------------------------------
(* Segments page: the lookups of the priority table.                       *)

\* C25: every name segment_rfm can give, for any scores in 1..5, is a key
\* of the priority table, so the lookups of compute_segment_metrics never
\* fail on a table that segment_rfm produced
C25_EverySegmentHasPriority ==
    /\ \A t \in Triples : assign_segment(t[1], t[2], t[3]) \in DOMAIN get_segment_priorities
    /\ rfm.status = "segmented" =>
          /\ \A r \in Range(rfm.rows) : r.Segment \in DOMAIN get_segment_priorities
          /\ SegmentsWithoutPriority(csv.rows, rfm.rows) = {}
    /\ metrics.status # "KeyError"

C25_Witness ==
    /\ rfm.status = "segmented"
    /\ metrics.status = "shown"
    /\ Len(metrics.rows) >= 2
    /\ \A i \in 1..Len(metrics.rows) :
          metrics.rows[i].Action = get_segment_priorities[metrics.rows[i].Segment].action

-----------------------------------------------------------------------------
(* The three RFM tables.                                                   *)

RowOf(tab, c) == CHOOSE r \in Range(tab) : r.CustomerID = c

InEveryTable ==
    {c \in Range(Column(csv.rows, "CustomerID")) :
        /\ \E r \in Range(rfm.rows) : r.CustomerID = c
        /\ \E r \in Range(coh.rows) : r.CustomerID = c
        /\ \E r \in Range(kpis.rows) : r.CustomerID = c}

\* C26: compute_rfm of the segments page (returns included), compute_rfm
\* of the overview page and the table of the cohort page give the same
\* Recency, Frequency and Monetary to every customer they all contain
C26_ThreeRfmTablesAgree ==
    (rfm.status = "ok" /\ coh.status = "rfm" /\ kpis.status = "rfm") =>
        \A c \in InEveryTable :
            \A col \in {"Recency", "Frequency", "Monetary"} :
                /\ RowOf(rfm.rows, c)[col] = RowOf(kpis.rows, c)[col]
                /\ RowOf(rfm.rows, c)[col] = RowOf(coh.rows, c)[col]

-----------------------------------------------------------------------------
(* Scenario page: the retention within the slider.                         *)

\* C27: for every retention_pct of the slider (the integers of [-50, 20])
\* and every subset with a transaction, retention_scenario is in [0, 1]:
\* without a lower clamp it still is never negative
C27_RetentionInUnitIntervalWithinSlider ==
    (sim.status = "applied" /\ ~IsNaN(sim.retention_baseline)) =>
        /\ ~IsNaN(sim.retention_scenario)
        /\ ~FLt(sim.retention_scenario, Zero)
        /\ ~FLt(One, sim.retention_scenario)

\* the lowest value of the slider on a subset of sales only
C27_Witness ==
    /\ sim.status = "applied"
    /\ sim.retention_pct = -50
    /\ sim.retention_baseline = One
    /\ sim.retention_scenario = Rat(1, 2)

-----------------------------------------------------------------------------
(* Scenario page: a subset of returns only.                                *)

\* C28: on a subset that has transactions, all of them returns
\* (retention_baseline = 0), the simulator reports that the scenario is
\* undefined: it does not show a clv_scenario and a ca_scenario that went
\* through retention_scenario / retention_baseline
C28_ReturnsOnlySubsetIsReported ==
    (/\ sim.status = "shown"
     /\ ShownFrame # <<>>
     /\ \A r \in Range(ShownFrame) : r.IsReturn)
        => /\ ~IsNaN(sim.clv_scenario)
           /\ ~IsNaN(sim.ca_scenario)

-----------------------------------------------------------------------------
(* Scenario page: the subset of a selection.                               *)

\* C30: for every value of the selectbox ("Toutes" or a cohort of the
\* loaded file) the subset of the baseline has a transaction when the file
\* has one, so the denominator of retention_baseline is not zero
C30_SelectableCohortHasTransactions ==
    (sim.status = "shown" /\ csv.rows # <<>>) =>
        /\ sim.cohorte_selection \in {Toutes} \cup CohorteOptions(csv.rows)
        /\ Len(ShownFrame) >= 1
        /\ ~IsNaN(sim.retention_baseline)

\* a cohort selected that is a part of the file only
C30_Witness ==
    /\ sim.status = "shown"
    /\ sim.cohorte_selection # Toutes
    /\ Len(ShownFrame) >= 1
    /\ Len(ShownFrame) < Len(csv.rows)

-----------------------------------------------------------------------------
(* Cohort page: cohorts without a first month after the filters.           *)

\* the cohorts of the filtered frame that have no transaction at age 0
WithoutAgeZero ==
    {a \in Range(Column(coh.df, "AcquisitionMonth")) :
        ~\E r \in Range(coh.df) : r.AcquisitionMonth = a /\ r.CohortAge = 0}

\* C29: a cohort that has, after the filters, no transaction at cohort age
\* 0 has no row in the retention matrix, and no cell is computed with a
\* cohort size that is missing or zero
C29_NoRowWithoutCohortSize ==
    coh.status = "shown" =>
        /\ \A a \in WithoutAgeZero :
              /\ a \notin DOMAIN coh.retention_matrix
              /\ ~\E g \in coh.cohort_data : g.AcquisitionMonth = a
        /\ \A g \in coh.cohort_data :
              /\ g.CohortSize >= 1
              /\ g.CohortSize = Cardinality({r.CustomerID : r \in
                                    {x \in Range(coh.df) :
                                        /\ x.AcquisitionMonth = g.AcquisitionMonth
                                        /\ x.CohortAge = 0}})
              /\ ~IsNaN(g.RetentionRate)

\* a filtered run with a cohort left without its first month beside a
\* cohort that has it
C29_Witness ==
    /\ coh.status = "shown"
    /\ WithoutAgeZero # {}
    /\ DOMAIN coh.retention_matrix # {}
=============================================================================
